---- MODULE Spec2Model ----
(***************************************************************************)
(* A model of the cache tier, the mount-handle single-flight, the NNTP     *)
(* pool, the triage runner and the orchestrator's decision merge of        *)
(* UsenetStreamer.  Each subsystem has its own specification over the      *)
(* shared variables; the variables of the other subsystems stay parked.    *)
(*                                                                         *)
(* JavaScript runs one handler continuation at a time, so an action is the *)
(* code between two awaits: from the call (or the settled promise/timer)   *)
(* to the next suspension point.                                           *)
(***************************************************************************)
EXTENDS Integers, Sequences, FiniteSets, TLC

VARIABLES
  now,                  \* Date.now(), in abstract ticks
  focus,                \* which of the independent caches a run of the cache tier exercises
  \* ---- mount-handle cache (nzbdavCache) ----
  nzbdavStreamCache,    \* Map cacheKey -> entry
  NZBDAV_CACHE_TTL_MS,  \* module-level TTL, reloadable
  builds,               \* the builder() calls made so far, by promise id
  nextBuild,            \* next promise id
  flushEpoch,           \* history: number of flushes so far
  requests,             \* the playback requests and where each one is suspended
  pinnedUntil,          \* history: per key, the instant a pinned failure lasts until
  retryDue,             \* history: per key, a transient failure no request has followed yet
  \* ---- response cache (streamCache) and verified-NZB cache (nzbCache) ----
  streamResponseCache,  \* Map in insertion order: sequence of entries
  streamCacheBytes,
  STREAM_CACHE_TTL_MS,  \* fixed at module load
  verifiedNzbCacheByUrl,
  verifiedNzbCacheBytes,
  VERIFIED_NZB_CACHE_TTL_MS,
  recency,              \* history: per cache, its keys by latest insertion, oldest first
  lastSet,              \* history: what the insertion of the step just taken did
  lastLookup,           \* history: what the lookup of the step just taken returned
  \* ---- NNTP pool (createNntpPool) ----
  idle,                 \* array of idle clients
  waiters,              \* array of the callers queued in acquire
  arrivals,             \* history: the callers still waiting, in the order they asked
  dropped,              \* history: the clients released with the drop mark
  allClients,           \* Set of the clients the pool owns
  closing,
  noopTimers,           \* clients with a keep-alive timer armed
  probing,              \* clients whose keep-alive stat is in flight
  closingClients,       \* scheduleReplacement: closeNntpClient calls in flight
  connecting,           \* attemptReplacement: createNntpClient calls in flight
  retryTimers,          \* attemptReplacement: retry timers armed
  nextClientId,         \* the next client createNntpClient yields
  activityFresh,        \* isTriageActivityFresh()
  idleLong,             \* Date.now() - lastUsed >= keepAliveMs
  callers,              \* the runWithClient calls and where each one is
  \* ---- triage runner (triageAndRank) ----
  phase,                \* idle | running | returned
  startTs,
  selectedCount,        \* selectedCandidates.length
  cursor,
  timedOut,
  decisionMap,          \* per selected candidate, the status of its decision
  workers,              \* the worker loops and the await each one is at
  downloadStarts,       \* history: <<candidate, instant>> of each download begun
  analysisStarts,       \* history: <<candidate, instant>> of each analysis begun
  returnedAt,           \* history: the instant triageAndRank returned
  indexerOf,            \* per selected candidate, the indexer its release came from
  abandoned,            \* candidates whose triageNzbs call runs on after its withTimeout fired
  fetchFailures,        \* the downloads that failed so far
  \* ---- stream handler: triage decisions of one response-cache key ----
  cachedDecisions,      \* the entry's triageDecisionsSnapshot, when the entry is there
  previousDecisions,    \* history: cachedDecisions before the step just taken
  handlers,             \* the stream requests for the key, and where each one is
  \* ---- shared NNTP pool (preWarmNntpPool / triageNzbs) ----
  sharedNntpPoolRecord,        \* null, or {key, pool}
  sharedNntpPoolBuildPromise,  \* null (0), or the build in flight
  poolBuilds,           \* the build promises made so far
  pools,                \* the pools createNntpPool has yielded: open, or close() called
  nextPoolBuild,
  nextPool,
  sharedIdle,           \* no fresh triage activity and the record's pool unused for the TTL
  evictions,            \* evictStaleSharedNntpPool calls awaiting their close
  poolCalls,            \* the preWarmNntpPool / triageNzbs calls and where each one is
  \* ---- aggregator circuit breaker (executeManagerPlanWithBackoff) ----
  INDEXER_MANAGER,
  INDEXER_MANAGER_BACKOFF_ENABLED,
  INDEXER_MANAGER_BACKOFF_SECONDS,
  indexerManagerUnavailableUntil,
  managerCalls,         \* the executeManagerPlanWithBackoff calls and how each one went
  failedAt,             \* history: the instant of the latest failure with the breaker enabled
  failedWindow,         \* history: INDEXER_MANAGER_BACKOFF_SECONDS at that failure
  reloadedSince,        \* history: rebuildRuntimeConfig ran after that failure
  \* ---- indexer searches (retryWithBackoff / searchNewznabIndexers) ----
  tasks,                \* the search request of each direct indexer and of the aggregator
  newznab,              \* the searchNewznabIndexers call: its eligible configs and what it returned
  \* ---- HTTP front: the middleware chain and the shared-secret gate ----
  sharedSecret,         \* process.env.ADDON_SHARED_SECRET, trimmed ("" when not set)
  authReq,              \* the request in the chain: method, path segments, token header
  authStage,            \* the middleware the request is at: idle | cors | ... | done
  authStatus,           \* the status of the response (0: none yet)
  invoked,              \* the handler the request reached
  \* ---- stream handler: one cache key, its results and triage decisions ----
  streamPool,           \* the releases the search returns: title, publish day, NZB_DEDUP_ENABLED
  streamEntry,          \* the response cache entry of the key: its meta
  streamReq,            \* the locals of the request being handled
  streamServed,         \* history: number of requests received
  \* ---- NZB analysis: analyzeSingleNzb and summarizeDecision ----
  analysis,             \* the analysis of one NZB: its position and the analyzer's decision
  summarized,           \* the status summarizeDecision gave the decision ("none": not yet)
  \* ---- mount history wait: waitForNzbdavHistorySlot ----
  wait,                 \* the wait: where it is suspended, its deadline, how it ended
  jobStatus,            \* the status of the job's slot in the NZBDav history
  \* ---- playback responses: streamFileResponse and proxyNzbdavStream ----
  playback,             \* the playback request: its Range header, the file, the response
  \* ---- the walk of a completed mount: findBestVideoFile ----
  mountTree,            \* the files of the mount's WebDAV directory
  walk,                 \* the walk: its queue, the directories listed, the best files so far
  \* ---- the ranker: prepareSortedResults and dedupeResultsByTitle ----
  rankPool,             \* the search results of the request, by position in the search order
  ranker                \* the ranker's configuration and its output, first and repeated

cacheVars == <<streamResponseCache, streamCacheBytes, STREAM_CACHE_TTL_MS,
               verifiedNzbCacheByUrl, verifiedNzbCacheBytes, VERIFIED_NZB_CACHE_TTL_MS,
               recency, lastSet>>

mountVars == <<nzbdavStreamCache, NZBDAV_CACHE_TTL_MS, builds, nextBuild, flushEpoch, requests,
              pinnedUntil, retryDue>>

poolVars == <<idle, waiters, arrivals, dropped, allClients, closing, noopTimers, probing, closingClients,
              connecting, retryTimers, nextClientId, activityFresh, idleLong, callers>>

triageVars == <<phase, startTs, selectedCount, cursor, timedOut, decisionMap, workers,
                downloadStarts, analysisStarts, returnedAt, indexerOf, abandoned, fetchFailures>>

decisionVars == <<cachedDecisions, previousDecisions, handlers>>

sharedVars == <<sharedNntpPoolRecord, sharedNntpPoolBuildPromise, poolBuilds, pools,
                nextPoolBuild, nextPool, sharedIdle, evictions, poolCalls>>

breakerVars == <<INDEXER_MANAGER, INDEXER_MANAGER_BACKOFF_ENABLED,
                 INDEXER_MANAGER_BACKOFF_SECONDS, indexerManagerUnavailableUntil, managerCalls,
                 failedAt, failedWindow, reloadedSince>>

searchVars == <<tasks, newznab>>

authVars == <<sharedSecret, authReq, authStage, authStatus, invoked>>

streamVars == <<streamPool, streamEntry, streamReq, streamServed>>

analyzerVars == <<analysis, summarized>>

waitVars == <<wait, jobStatus>>

rangeVars == <<playback>>

walkVars == <<mountTree, walk>>

rankerVars == <<rankPool, ranker>>

vars == <<now, focus, lastLookup, mountVars, cacheVars, poolVars, triageVars, decisionVars,
          sharedVars, breakerVars, searchVars, authVars, streamVars, analyzerVars, waitVars, rangeVars,
          walkVars, rankerVars>>

(***************************************************************************)
(* Bounds of the model.                                                    *)
(***************************************************************************)
MaxTime == 4          \* the clock runs 1..MaxTime
NumRequests == 2      \* concurrent playback requests
MaxBuilds == 3        \* builder() invocations explored
MaxFlush == 1         \* configuration saves explored in the mount model
MountTtl == 2         \* the non-zero NZBDAV_CACHE_TTL_MS a reload may choose

NumClients == 2       \* connectionCount: the pool's size N
NumCallers == 3       \* concurrent runWithClient calls
MaxClientId == 3      \* clients createNntpClient ever yields
MaxReplacing == 1     \* replacements in progress at a time
MaxCandidates == 3    \* selected candidates of a triage run
NumWorkers == 2       \* options.downloadConcurrency
timeBudgetMs == 2     \* scaled: options.timeBudgetMs
downloadTimeoutMs == 2   \* scaled: options.downloadTimeoutMs
NumHandlers == 2      \* concurrent stream requests for one cache key
NumPoolCalls == 2     \* concurrent preWarmNntpPool / triageNzbs calls
MaxPoolBuilds == 3    \* shared-pool builds explored
MaxPools == 3         \* pools createNntpPool ever yields
MaxEvictions == 1     \* stale evictions awaiting their close at a time
NumManagerCalls == 2  \* concurrent executeManagerPlanWithBackoff calls
MaxBackoff == 2       \* scaled: the largest INDEXER_MANAGER_BACKOFF_SECONDS a reload may choose
initialDelay == 10    \* scaled to units of 100 ms: retryOptions.initialDelay
maxDelay == 100       \* scaled to units of 100 ms: the default maxDelay of retryWithBackoff
MaxPathLen == 4       \* segments of a request path
MaxStreamRequests == 3      \* stream requests for the key
TRIAGE_MAX_CANDIDATES == 2  \* NZB_TRIAGE_MAX_CANDIDATES
NZBDAV_POLL_INTERVAL_MS == 2     \* in seconds: 2000 ms
NZBDAV_POLL_TIMEOUT_MS == 6      \* scaled: 80000 ms in the code
NZBDAV_HISTORY_TIMEOUT_MS == 4   \* scaled: 60000 ms in the code
HistoryRetryDelay == 1           \* in seconds: initialDelay 1000 ms of the history poll
MaxFileSize == 3      \* bytes of the file played back
MaxDigits == 2        \* digits of a position in a Range header
TreeDepth == 7        \* depth of the deepest directory of the mount
MaxFiles == 2         \* files in the mount
MaxFileBytes == 2     \* size of a file of the mount
MaxListFailures == 1  \* directory listings that fail during one walk
MaxResults == 3       \* search results of one request
MaxResultSize == 2    \* size of a search result

CacheTtl == 2         \* the non-zero TTL of the response and verified-NZB caches
MaxEntrySize == 2     \* byte sizes of the payloads offered to the caches
STREAM_CACHE_MAX_BYTES == 3         \* scaled: STREAM_CACHE_MAX_SIZE_MB
STREAM_CACHE_MAX_ENTRIES == 2       \* scaled: 1000 in the source
VERIFIED_NZB_CACHE_MAX_BYTES == 3   \* scaled: VERIFIED_NZB_CACHE_MAX_SIZE_MB

\* expiresAt: null (and 0) both read as "no expiry" in `entry.expiresAt && ...`
NoExpiry == 0

Keys == {"k1", "k2"}
CacheKeys == {"a", "b", "c"}

\* history records of the step just taken
NoSet == [cache |-> "none", key |-> "a", stored |-> FALSE, evicted |-> <<>>, order |-> <<>>]
\* stale: the key was in the map with its expiry instant reached
NoLookup == [cache |-> "none", key |-> "a", hit |-> FALSE, stale |-> FALSE, at |-> 0, expiresAt |-> NoExpiry]

Reqs == 1..NumRequests
BuildIds == 1..MaxBuilds
MountTtlChoices == {0, MountTtl}

(***************************************************************************)
(* Mount-handle cache: cleanupNzbdavCache / getOrCreateNzbdavStream.       *)
(***************************************************************************)
NoEntry == [status |-> "none", promise |-> 0, expiresAt |-> NoExpiry]

\* pc: where handleNzbdavStream is; promise: the build it awaits or was answered
\* with; via: how getOrCreateNzbdavStream served it (build | join | hit)
IdleRequest == [pc |-> "idle", key |-> "k1", promise |-> 0, via |-> "none"]

NoBuild == [state |-> "unused", key |-> "k1", epoch |-> 0]

\* entry.expiresAt && entry.expiresAt <= now
NzbdavExpired(entry, t) == entry.expiresAt # NoExpiry /\ entry.expiresAt <= t

\* cleanupNzbdavCache(): the map after the sweep
cleanupNzbdavCache(cache, ttl, t) ==
  IF ttl <= 0 THEN cache
  ELSE [k \in Keys |->
          IF cache[k].status # "none" /\ NzbdavExpired(cache[k], t)
            THEN NoEntry ELSE cache[k]]

\* NZBDAV_CACHE_TTL_MS > 0 ? Date.now() + NZBDAV_CACHE_TTL_MS : null
NzbdavExpiresAt(ttl, t) == IF ttl > 0 THEN t + ttl ELSE NoExpiry

\* the `if (existing) { ready / pending / failed }` dispatch
LookupOutcome(existing) ==
  IF existing.status = "ready" THEN "return"
  ELSE IF existing.status = "pending" THEN "join"
  ELSE IF existing.status = "failed" THEN "throw"
  ELSE "build"

\* history: the entry was there with its expiry instant reached
MountStale(entry, t) ==
  entry.status \in {"ready", "failed"} /\ entry.expiresAt # NoExpiry /\ entry.expiresAt <= t

\* getOrCreateNzbdavStream(cacheKey, builder) up to its first suspension
getOrCreateNzbdavStream(r, k) ==
  /\ requests[r].pc = "idle"
  /\ LET cleaned == cleanupNzbdavCache(nzbdavStreamCache, NZBDAV_CACHE_TTL_MS, now)
         existing == cleaned[k]
         outcome == LookupOutcome(existing)
     IN
     \/ /\ outcome = "return"
        /\ lastLookup' = [cache |-> "mount", key |-> k, hit |-> TRUE,
                          stale |-> MountStale(nzbdavStreamCache[k], now), at |-> now,
                          expiresAt |-> existing.expiresAt]
        /\ nzbdavStreamCache' = cleaned
        /\ requests' = [requests EXCEPT ![r] =
              [pc |-> "returned", key |-> k, promise |-> existing.promise, via |-> "hit"]]
        /\ UNCHANGED <<builds, nextBuild>>
     \/ /\ outcome = "join"
        /\ lastLookup' = NoLookup
        /\ nzbdavStreamCache' = cleaned
        /\ requests' = [requests EXCEPT ![r] =
              [pc |-> "awaiting", key |-> k, promise |-> existing.promise, via |-> "join"]]
        /\ UNCHANGED <<builds, nextBuild>>
     \/ /\ outcome = "throw"
        /\ lastLookup' = [cache |-> "mount", key |-> k, hit |-> TRUE,
                          stale |-> MountStale(nzbdavStreamCache[k], now), at |-> now,
                          expiresAt |-> existing.expiresAt]
        /\ nzbdavStreamCache' = cleaned
        /\ requests' = [requests EXCEPT ![r] =
              [pc |-> "threw", key |-> k, promise |-> existing.promise, via |-> "hit"]]
        /\ UNCHANGED <<builds, nextBuild>>
     \/ /\ outcome = "build"
        /\ nextBuild <= MaxBuilds
        /\ lastLookup' = [NoLookup EXCEPT !.cache = "mount", !.key = k, !.at = now,
                            !.stale = MountStale(nzbdavStreamCache[k], now)]
        /\ builds' = [builds EXCEPT ![nextBuild] =
              [state |-> "running", key |-> k, epoch |-> flushEpoch]]
        /\ nextBuild' = nextBuild + 1
        /\ nzbdavStreamCache' = [cleaned EXCEPT ![k] =
              [status |-> "pending", promise |-> nextBuild, expiresAt |-> NoExpiry]]
        /\ requests' = [requests EXCEPT ![r] =
              [pc |-> "awaiting", key |-> k, promise |-> nextBuild, via |-> "build"]]
  /\ retryDue' = [retryDue EXCEPT ![k] = FALSE]
  /\ UNCHANGED <<now, NZBDAV_CACHE_TTL_MS, flushEpoch, pinnedUntil>>

\* builder() fulfils: the async wrapper stores `ready` (data: what build b
\* produced), then every awaiter of the promise resumes with it
BuilderResolve(b) ==
  /\ lastLookup' = NoLookup
  /\ builds[b].state = "running"
  /\ builds' = [builds EXCEPT ![b].state = "resolved"]
  /\ nzbdavStreamCache' = [nzbdavStreamCache EXCEPT ![builds[b].key] =
        [status |-> "ready", promise |-> b,
         expiresAt |-> NzbdavExpiresAt(NZBDAV_CACHE_TTL_MS, now)]]
  /\ requests' = [r \in Reqs |->
        IF requests[r].pc = "awaiting" /\ requests[r].promise = b
          THEN [requests[r] EXCEPT !.pc = "returned"]
          ELSE requests[r]]
  /\ UNCHANGED <<now, NZBDAV_CACHE_TTL_MS, nextBuild, flushEpoch, pinnedUntil, retryDue>>

\* builder() rejects: every awaiter throws; the owner's catch pins `failed`
\* (error: that of build b) or deletes the key
BuilderReject(b, isNzbdavFailure) ==
  /\ lastLookup' = NoLookup
  /\ builds[b].state = "running"
  /\ builds' = [builds EXCEPT ![b].state = "rejected"]
  /\ nzbdavStreamCache' = [nzbdavStreamCache EXCEPT ![builds[b].key] =
        IF isNzbdavFailure
          THEN [status |-> "failed", promise |-> b,
                expiresAt |-> NzbdavExpiresAt(NZBDAV_CACHE_TTL_MS, now)]
          ELSE NoEntry]
  /\ requests' = [r \in Reqs |->
        IF requests[r].pc = "awaiting" /\ requests[r].promise = b
          THEN [requests[r] EXCEPT !.pc = "threw"]
          ELSE requests[r]]
  /\ pinnedUntil' = IF isNzbdavFailure
                      THEN [pinnedUntil EXCEPT ![builds[b].key] =
                              NzbdavExpiresAt(NZBDAV_CACHE_TTL_MS, now)]
                      ELSE pinnedUntil
  /\ retryDue' = IF isNzbdavFailure THEN retryDue
                   ELSE [retryDue EXCEPT ![builds[b].key] = TRUE]
  /\ UNCHANGED <<now, NZBDAV_CACHE_TTL_MS, nextBuild, flushEpoch>>

\* handleNzbdavStream has answered; the client may ask again
RequestDone(r) ==
  /\ lastLookup' = NoLookup
  /\ requests[r].pc \in {"returned", "threw"}
  /\ requests' = [requests EXCEPT ![r] = IdleRequest]
  /\ UNCHANGED <<now, nzbdavStreamCache, NZBDAV_CACHE_TTL_MS, builds, nextBuild, flushEpoch,
                  pinnedUntil, retryDue>>

\* admin config save: reloadNzbdavCacheConfig() then clearAllCaches()
MountConfigSave(ttl) ==
  /\ lastLookup' = NoLookup
  /\ flushEpoch < MaxFlush
  /\ NZBDAV_CACHE_TTL_MS' = ttl
  /\ nzbdavStreamCache' = [k \in Keys |-> NoEntry]
  /\ flushEpoch' = flushEpoch + 1
  /\ pinnedUntil' = [k \in Keys |-> 0]
  /\ UNCHANGED <<now, builds, nextBuild, requests, retryDue>>

\* history: the pins still lasting at instant t
PinsLasting(t) == [k \in Keys |-> IF pinnedUntil[k] > t THEN pinnedUntil[k] ELSE 0]

MountTick ==
  /\ lastLookup' = NoLookup
  /\ now < MaxTime
  /\ now' = now + 1
  /\ pinnedUntil' = PinsLasting(now + 1)
  /\ UNCHANGED <<nzbdavStreamCache, NZBDAV_CACHE_TTL_MS, builds, nextBuild, flushEpoch,
                  requests, retryDue>>

(***************************************************************************)
(* Response cache and verified-NZB cache.  A JavaScript Map iterates in    *)
(* insertion order, and set() on a present key keeps that key's place: a   *)
(* map is the sequence of its entries in iteration order.                  *)
(***************************************************************************)
\* payload sizes offered: the usual ones and one above either cap
EntrySizes == (1..MaxEntrySize) \cup {STREAM_CACHE_MAX_BYTES + 1, VERIFIED_NZB_CACHE_MAX_BYTES + 1}
CacheTtlChoices == {0, CacheTtl}

StaleIn(map, k, t) ==
  \E i \in 1..Len(map) : map[i].key = k /\ map[i].expiresAt # NoExpiry /\ map[i].expiresAt <= t

RECURSIVE SumSizes(_)
SumSizes(map) == IF map = <<>> THEN 0 ELSE Head(map).size + SumSizes(Tail(map))

KeysOf(map) == [i \in 1..Len(map) |-> map[i].key]
HasKey(map, k) == \E i \in 1..Len(map) : map[i].key = k
EntryOf(map, k) == map[CHOOSE i \in 1..Len(map) : map[i].key = k]
\* Map.delete(k)
MapDelete(map, k) == SelectSeq(map, LAMBDA e : e.key # k)
\* Map.set(k, entry): in place when k is present, appended otherwise
MapSet(map, entry) ==
  IF HasKey(map, entry.key)
    THEN [i \in 1..Len(map) |-> IF map[i].key = entry.key THEN entry ELSE map[i]]
    ELSE Append(map, entry)

CacheExpired_Late(entry, t) == entry.expiresAt # NoExpiry /\ entry.expiresAt < t

\* entry.expiresAt && entry.expiresAt <= now
CacheExpired(entry, t) == entry.expiresAt # NoExpiry /\ entry.expiresAt <= t

\* TTL_MS > 0 ? Date.now() + TTL_MS : null
CacheExpiresAt(ttl, t) == IF ttl > 0 THEN t + ttl ELSE NoExpiry

SweepExpired_Uncounted(map, bytes, ttl, t) ==
  IF ttl > 0
    THEN [map |-> SelectSeq(map, LAMBDA e : ~CacheExpired(e, t)),
          bytes |-> bytes, evicted |-> <<>>]
    ELSE [map |-> map, bytes |-> bytes, evicted |-> <<>>]

\* the sweep `for (const [key, entry] of map.entries()) if (expired) delete`,
\* with the byte counter it leaves
SweepExpired(map, bytes, ttl, t) ==
  IF ttl > 0
    THEN LET dead == SelectSeq(map, LAMBDA e : CacheExpired(e, t))
         IN [map |-> SelectSeq(map, LAMBDA e : ~CacheExpired(e, t)),
             bytes |-> bytes - SumSizes(dead), evicted |-> <<>>]
    ELSE [map |-> map, bytes |-> bytes, evicted |-> <<>>]

\* the condition of cleanupStreamCache's while loop
StreamOverLimit(bytes, count) ==
  \/ (STREAM_CACHE_MAX_BYTES > 0 /\ bytes > STREAM_CACHE_MAX_BYTES)
  \/ (STREAM_CACHE_MAX_ENTRIES > 0 /\ count > STREAM_CACHE_MAX_ENTRIES)

VerifiedOverLimit_Slack(bytes) ==
  VERIFIED_NZB_CACHE_MAX_BYTES > 0 /\ bytes > 2 * VERIFIED_NZB_CACHE_MAX_BYTES

\* the condition of cleanupVerifiedNzbCache's while loop
VerifiedOverLimit(bytes) ==
  VERIFIED_NZB_CACHE_MAX_BYTES > 0 /\ bytes > VERIFIED_NZB_CACHE_MAX_BYTES

\* cleanupStreamCache's while loop: delete the oldest key until both limits hold
RECURSIVE StreamEvict(_)
StreamEvict(c) ==
  IF StreamOverLimit(c.bytes, Len(c.map)) /\ c.map # <<>>
    THEN StreamEvict([map |-> Tail(c.map), bytes |-> c.bytes - Head(c.map).size,
                      evicted |-> Append(c.evicted, Head(c.map).key)])
    ELSE c

\* cleanupVerifiedNzbCache's while loop
RECURSIVE VerifiedEvict(_)
VerifiedEvict(c) ==
  IF VerifiedOverLimit(c.bytes) /\ c.map # <<>>
    THEN VerifiedEvict([map |-> Tail(c.map), bytes |-> c.bytes - Head(c.map).size,
                        evicted |-> Append(c.evicted, Head(c.map).key)])
    ELSE c

\* cleanupStreamCache(now)
cleanupStreamCache(map, bytes, ttl, t) ==
  IF Len(map) = 0 THEN [map |-> map, bytes |-> bytes, evicted |-> <<>>]
  ELSE StreamEvict(SweepExpired(map, bytes, ttl, t))

\* cleanupVerifiedNzbCache(now)
cleanupVerifiedNzbCache(map, bytes, ttl, t) ==
  IF Len(map) = 0 THEN [map |-> map, bytes |-> bytes, evicted |-> <<>>]
  ELSE VerifiedEvict(SweepExpired(map, bytes, ttl, t))

\* history bookkeeping: key k inserted now; the keys still in `map`
Reinserted(order, k) == Append(SelectSeq(order, LAMBDA x : x # k), k)
StillIn(order, map) == SelectSeq(order, LAMBDA x : HasKey(map, x))

\* the map with the entry for k put in as setStreamCacheEntry does: the old
\* entry deleted first, the new one added at the end
StreamPut(map, entry) == Append(MapDelete(map, entry.key), entry)

\* the map with the entry put in as cacheVerifiedNzbPayload does: Map.set alone
VerifiedPut(map, entry) == MapSet(map, entry)

\* setStreamCacheEntry(cacheKey, payload, meta), size = estimateCacheEntrySize
setStreamCacheEntry(k, size) ==
  /\ IF size <= 0 \/ (STREAM_CACHE_MAX_BYTES > 0 /\ size > STREAM_CACHE_MAX_BYTES)
       THEN /\ lastSet' = [NoSet EXCEPT !.cache = "stream", !.key = k]
            /\ UNCHANGED <<streamResponseCache, streamCacheBytes, recency>>
       ELSE LET entry == [key |-> k, size |-> size,
                          expiresAt |-> CacheExpiresAt(STREAM_CACHE_TTL_MS, now)]
                less == IF HasKey(streamResponseCache, k)
                          THEN streamCacheBytes - EntryOf(streamResponseCache, k).size
                          ELSE streamCacheBytes
                put == StreamPut(streamResponseCache, entry)
                c == cleanupStreamCache(put, less + size, STREAM_CACHE_TTL_MS, now)
            IN /\ streamResponseCache' = c.map
               /\ streamCacheBytes' = c.bytes
               /\ lastSet' = [cache |-> "stream", key |-> k, stored |-> TRUE,
                              evicted |-> c.evicted,
                              order |-> StillIn(Reinserted(recency.stream, k),
                                                SweepExpired(put, 0, STREAM_CACHE_TTL_MS, now).map)]
               /\ recency' = [recency EXCEPT !.stream = StillIn(Reinserted(recency.stream, k), c.map)]
  /\ lastLookup' = NoLookup
  /\ UNCHANGED <<now, STREAM_CACHE_TTL_MS, verifiedNzbCacheByUrl, verifiedNzbCacheBytes,
                 VERIFIED_NZB_CACHE_TTL_MS>>

\* getStreamCacheEntry(cacheKey)
getStreamCacheEntry(k) ==
  /\ LET c == cleanupStreamCache(streamResponseCache, streamCacheBytes, STREAM_CACHE_TTL_MS, now)
     IN IF ~HasKey(c.map, k)
          THEN /\ streamResponseCache' = c.map
               /\ streamCacheBytes' = c.bytes
               /\ lastLookup' = [NoLookup EXCEPT !.cache = "stream", !.key = k, !.at = now,
                                                   !.stale = StaleIn(streamResponseCache, k, now)]
          ELSE LET entry == EntryOf(c.map, k)
               IN IF CacheExpired(entry, now)
                    THEN /\ streamResponseCache' = MapDelete(c.map, k)
                         /\ streamCacheBytes' = c.bytes - entry.size
                         /\ lastLookup' = [NoLookup EXCEPT !.cache = "stream", !.key = k, !.at = now,
                                                   !.stale = StaleIn(streamResponseCache, k, now)]
                    ELSE /\ streamResponseCache' = c.map
                         /\ streamCacheBytes' = c.bytes
                         /\ lastLookup' = [cache |-> "stream", key |-> k, hit |-> TRUE,
                                           stale |-> StaleIn(streamResponseCache, k, now), at |-> now,
                                           expiresAt |-> entry.expiresAt]
  /\ recency' = [recency EXCEPT !.stream = StillIn(recency.stream, streamResponseCache')]
  /\ lastSet' = NoSet
  /\ UNCHANGED <<now, STREAM_CACHE_TTL_MS, verifiedNzbCacheByUrl, verifiedNzbCacheBytes,
                 VERIFIED_NZB_CACHE_TTL_MS>>

\* cacheVerifiedNzbPayload(downloadUrl, nzbPayload, metadata), size = byte length
cacheVerifiedNzbPayload(k, size) ==
  /\ IF size = 0 \/ VERIFIED_NZB_CACHE_MAX_BYTES <= 0 \/ size > VERIFIED_NZB_CACHE_MAX_BYTES
       THEN /\ lastSet' = [NoSet EXCEPT !.cache = "verified", !.key = k]
            /\ UNCHANGED <<verifiedNzbCacheByUrl, verifiedNzbCacheBytes, recency>>
       ELSE LET entry == [key |-> k, size |-> size,
                          expiresAt |-> CacheExpiresAt(VERIFIED_NZB_CACHE_TTL_MS, now)]
                less == IF HasKey(verifiedNzbCacheByUrl, k)
                          THEN verifiedNzbCacheBytes - EntryOf(verifiedNzbCacheByUrl, k).size
                          ELSE verifiedNzbCacheBytes
                put == VerifiedPut(verifiedNzbCacheByUrl, entry)
                c == cleanupVerifiedNzbCache(put, less + size, VERIFIED_NZB_CACHE_TTL_MS, now)
            IN /\ verifiedNzbCacheByUrl' = c.map
               /\ verifiedNzbCacheBytes' = c.bytes
               /\ lastSet' = [cache |-> "verified", key |-> k, stored |-> TRUE,
                              evicted |-> c.evicted,
                              order |-> StillIn(Reinserted(recency.verified, k),
                                                SweepExpired(put, 0, VERIFIED_NZB_CACHE_TTL_MS, now).map)]
               /\ recency' = [recency EXCEPT !.verified = StillIn(Reinserted(recency.verified, k), c.map)]
  /\ lastLookup' = NoLookup
  /\ UNCHANGED <<now, STREAM_CACHE_TTL_MS, streamResponseCache, streamCacheBytes,
                 VERIFIED_NZB_CACHE_TTL_MS>>

\* getVerifiedNzbCacheEntry(downloadUrl)
getVerifiedNzbCacheEntry(k) ==
  /\ VERIFIED_NZB_CACHE_MAX_BYTES > 0
  /\ LET c == cleanupVerifiedNzbCache(verifiedNzbCacheByUrl, verifiedNzbCacheBytes,
                                      VERIFIED_NZB_CACHE_TTL_MS, now)
     IN IF ~HasKey(c.map, k)
          THEN /\ verifiedNzbCacheByUrl' = c.map
               /\ verifiedNzbCacheBytes' = c.bytes
               /\ lastLookup' = [NoLookup EXCEPT !.cache = "verified", !.key = k, !.at = now,
                                                   !.stale = StaleIn(verifiedNzbCacheByUrl, k, now)]
          ELSE LET entry == EntryOf(c.map, k)
               IN IF CacheExpired(entry, now)
                    THEN /\ verifiedNzbCacheByUrl' = MapDelete(c.map, k)
                         /\ verifiedNzbCacheBytes' = c.bytes - entry.size
                         /\ lastLookup' = [NoLookup EXCEPT !.cache = "verified", !.key = k, !.at = now,
                                                   !.stale = StaleIn(verifiedNzbCacheByUrl, k, now)]
                    ELSE /\ verifiedNzbCacheByUrl' = c.map
                         /\ verifiedNzbCacheBytes' = c.bytes
                         /\ lastLookup' = [cache |-> "verified", key |-> k, hit |-> TRUE,
                                           stale |-> StaleIn(verifiedNzbCacheByUrl, k, now), at |-> now,
                                           expiresAt |-> entry.expiresAt]
  /\ recency' = [recency EXCEPT !.verified = StillIn(recency.verified, verifiedNzbCacheByUrl')]
  /\ lastSet' = NoSet
  /\ UNCHANGED <<now, STREAM_CACHE_TTL_MS, streamResponseCache, streamCacheBytes,
                 VERIFIED_NZB_CACHE_TTL_MS>>

\* clearStreamResponseCache() and clearVerifiedNzbCache()
ClearCaches ==
  /\ streamResponseCache' = <<>>
  /\ streamCacheBytes' = 0
  /\ verifiedNzbCacheByUrl' = <<>>
  /\ verifiedNzbCacheBytes' = 0
  /\ recency' = [stream |-> <<>>, verified |-> <<>>]
  /\ lastSet' = NoSet
  /\ lastLookup' = NoLookup
  /\ UNCHANGED <<STREAM_CACHE_TTL_MS, VERIFIED_NZB_CACHE_TTL_MS>>

\* clearAllCaches(reason): the response cache, the verified-NZB cache and the
\* mount-handle cache are emptied
clearAllCaches ==
  /\ ClearCaches
  /\ nzbdavStreamCache' = [k \in Keys |-> NoEntry]
  /\ pinnedUntil' = [k \in Keys |-> 0]
  /\ UNCHANGED <<now, NZBDAV_CACHE_TTL_MS, builds, nextBuild, flushEpoch, requests, retryDue>>

\* the admin config save: reloadNzbdavCacheConfig() and clearAllCaches()
AdminConfigSave(ttl) == MountConfigSave(ttl) /\ ClearCaches

CacheTick ==
  /\ now < MaxTime
  /\ now' = now + 1
  /\ lastLookup' = NoLookup
  /\ lastSet' = NoSet
  /\ pinnedUntil' = PinsLasting(now + 1)
  /\ UNCHANGED <<streamResponseCache, streamCacheBytes, STREAM_CACHE_TTL_MS,
                 verifiedNzbCacheByUrl, verifiedNzbCacheBytes, VERIFIED_NZB_CACHE_TTL_MS,
                 recency, nzbdavStreamCache, NZBDAV_CACHE_TTL_MS, builds, nextBuild,
                 flushEpoch, requests, retryDue>>

InitCache ==
  /\ streamResponseCache = <<>>
  /\ streamCacheBytes = 0
  /\ STREAM_CACHE_TTL_MS \in CacheTtlChoices
  /\ verifiedNzbCacheByUrl = <<>>
  /\ verifiedNzbCacheBytes = 0
  /\ VERIFIED_NZB_CACHE_TTL_MS \in CacheTtlChoices
  /\ recency = [stream |-> <<>>, verified |-> <<>>]
  /\ lastSet = NoSet
  /\ lastLookup = NoLookup

InitMount ==
  /\ nzbdavStreamCache = [k \in Keys |-> NoEntry]
  /\ NZBDAV_CACHE_TTL_MS \in MountTtlChoices
  /\ builds = [b \in BuildIds |-> NoBuild]
  /\ nextBuild = 1
  /\ flushEpoch = 0
  /\ requests = [r \in Reqs |-> IdleRequest]
  /\ pinnedUntil = [k \in Keys |-> 0]
  /\ retryDue = [k \in Keys |-> FALSE]

(***************************************************************************)
(* NNTP pool: createNntpPool.  Timers and network completions are          *)
(* callbacks; each is one action.  A caller is a runWithClient call.       *)
(***************************************************************************)
Clients == 1..MaxClientId
Callers == 1..NumCallers
NoClient == 0

\* pc: idle | waiting (queued in acquire) | holding | unavailable (acquire
\* rejected, or resolved with null by close)
IdleCaller == [pc |-> "idle", client |-> NoClient, via |-> "none", behind |-> 0]

SeqRemove(seq, c) == SelectSeq(seq, LAMBDA x : x # c)
InSeq(seq, c) == \E i \in 1..Len(seq) : seq[i] = c
Front(seq) == SubSeq(seq, 1, Len(seq) - 1)
Last(seq) == seq[Len(seq)]

FirstWaiter_Newest(queue) == queue[Len(queue)]

\* waiters.shift(): the waiter it yields
FirstWaiter(queue) == Head(queue)

\* scheduleKeepAlive(client): the timer map it leaves
scheduleKeepAlive(timers, c) ==
  IF closing \/ c \in timers THEN timers
  ELSE IF ~activityFresh THEN timers
  ELSE timers \cup {c}

\* cancelKeepAlive(client)
cancelKeepAlive(timers, c) == timers \ {c}

\* the replacements in progress: closing the old client, connecting, or
\* waiting to retry the connect
Replacing == closingClients + connecting + retryTimers

\* attemptReplacement() up to its await: nothing when closing, else a connect
attemptReplacement ==
  IF closing THEN connecting ELSE connecting + 1

\* acquireClient()
acquireClient(p) ==
  /\ callers[p].pc = "idle"
  /\ IF closing
       THEN /\ callers' = [callers EXCEPT ![p] = [IdleCaller EXCEPT !.pc = "unavailable"]]
            /\ UNCHANGED <<idle, waiters, arrivals, noopTimers, idleLong>>
       ELSE IF Len(idle) > 0
         THEN /\ idle' = Front(idle)
              /\ noopTimers' = cancelKeepAlive(noopTimers, Last(idle))
              /\ idleLong' = FALSE
              /\ callers' = [callers EXCEPT ![p] = [pc |-> "holding", client |-> Last(idle), via |-> "idle", behind |-> 0]]
              /\ UNCHANGED <<waiters, arrivals>>
         ELSE /\ waiters' = Append(waiters, p)
              /\ arrivals' = Append(arrivals, p)
              /\ callers' = [callers EXCEPT ![p] = [IdleCaller EXCEPT !.pc = "waiting"]]
              /\ UNCHANGED <<idle, noopTimers, idleLong>>
  /\ UNCHANGED <<dropped, allClients, closing, probing, closingClients, connecting, retryTimers,
                 nextClientId, activityFresh>>

\* pool.release(client, {drop}) = releaseClient(client, drop), from the
\* finally of runWithClient
releaseClient(p, drop) ==
  /\ callers[p].pc = "holding"
  /\ LET client == callers[p].client
     IN IF drop
          THEN /\ Replacing < MaxReplacing
               /\ noopTimers' = cancelKeepAlive(noopTimers, client)
               /\ allClients' = allClients \ {client}
               /\ closingClients' = closingClients + 1
               /\ dropped' = dropped \cup {client}
               /\ callers' = [callers EXCEPT ![p] = IdleCaller]
               /\ UNCHANGED <<idle, waiters, arrivals, idleLong>>
          ELSE IF Len(waiters) > 0
            THEN /\ waiters' = Tail(waiters)
                 /\ arrivals' = SeqRemove(arrivals, FirstWaiter(waiters))
                 /\ idleLong' = FALSE
                 /\ callers' = [callers EXCEPT ![p] = IdleCaller,
                                               ![FirstWaiter(waiters)] =
                                  [pc |-> "holding", client |-> client, via |-> "release",
                                   behind |-> Len(waiters) - 1]]
                 /\ UNCHANGED <<idle, noopTimers, allClients, closingClients, dropped>>
            ELSE /\ idle' = Append(idle, client)
                 /\ idleLong' = FALSE
                 /\ noopTimers' = scheduleKeepAlive(noopTimers, client)
                 /\ callers' = [callers EXCEPT ![p] = IdleCaller]
                 /\ UNCHANGED <<waiters, arrivals, allClients, closingClients, dropped>>
  /\ UNCHANGED <<closing, probing, connecting, retryTimers, nextClientId, activityFresh>>

\* runWithClient after a failed acquire: it throws, and may be called again
CallerRetry(p) ==
  /\ callers[p].pc = "unavailable"
  /\ callers' = [callers EXCEPT ![p] = IdleCaller]
  /\ UNCHANGED <<dropped, idle, waiters, arrivals, allClients, closing, noopTimers, probing, closingClients,
                 connecting, retryTimers, nextClientId, activityFresh, idleLong>>

\* scheduleReplacement: closeNntpClient(client) settled, attemptReplacement()
CloseSettled ==
  /\ closingClients > 0
  /\ closingClients' = closingClients - 1
  /\ connecting' = attemptReplacement
  /\ UNCHANGED <<dropped, idle, waiters, arrivals, allClients, closing, noopTimers, probing, retryTimers,
                 nextClientId, activityFresh, idleLong, callers>>

\* attemptReplacement: createNntpClient fulfilled
ConnectFulfilled ==
  /\ connecting > 0
  /\ nextClientId <= MaxClientId
  /\ connecting' = connecting - 1
  /\ nextClientId' = nextClientId + 1
  /\ allClients' = allClients \cup {nextClientId}
  /\ idleLong' = FALSE
  /\ IF Len(waiters) > 0
       THEN /\ waiters' = Tail(waiters)
            /\ arrivals' = SeqRemove(arrivals, FirstWaiter(waiters))
            /\ callers' = [callers EXCEPT ![FirstWaiter(waiters)] =
                              [pc |-> "holding", client |-> nextClientId, via |-> "replacement",
                               behind |-> Len(waiters) - 1]]
            /\ UNCHANGED idle
       ELSE /\ idle' = Append(idle, nextClientId)
            /\ UNCHANGED <<waiters, arrivals, callers>>
  /\ UNCHANGED <<dropped, closing, noopTimers, probing, closingClients, retryTimers, activityFresh>>

ConnectRejected_NoRetry ==
  /\ connecting > 0
  /\ connecting' = connecting - 1
  /\ UNCHANGED <<dropped, idle, waiters, arrivals, allClients, closing, noopTimers, probing,
                 closingClients, retryTimers, nextClientId, activityFresh, idleLong, callers>>

\* attemptReplacement: createNntpClient rejected
ConnectRejected ==
  /\ connecting > 0
  /\ connecting' = connecting - 1
  /\ retryTimers' = IF closing THEN retryTimers ELSE retryTimers + 1
  /\ UNCHANGED <<dropped, idle, waiters, arrivals, allClients, closing, noopTimers, probing, closingClients,
                 nextClientId, activityFresh, idleLong, callers>>

\* setTimeout(attemptReplacement, 1000) fires
RetryTimerFires ==
  /\ retryTimers > 0
  /\ retryTimers' = retryTimers - 1
  /\ connecting' = attemptReplacement
  /\ UNCHANGED <<dropped, idle, waiters, arrivals, allClients, closing, noopTimers, probing, closingClients,
                 nextClientId, activityFresh, idleLong, callers>>
\* the keep-alive timer of scheduleKeepAlive fires: up to the await of the stat
NoopTimerFires(c) ==
  /\ c \in noopTimers
  /\ noopTimers' = noopTimers \ {c}
  /\ probing' = IF activityFresh THEN probing \cup {c} ELSE probing
  /\ UNCHANGED <<dropped, idle, waiters, arrivals, allClients, closing, closingClients, connecting, retryTimers,
                 nextClientId, activityFresh, idleLong, callers>>

\* the stat answered (or 430): the timer is re-armed for a client still idle
ProbeResolved(c) ==
  /\ c \in probing
  /\ probing' = probing \ {c}
  /\ noopTimers' = IF ~closing /\ InSeq(idle, c) /\ activityFresh
                     THEN scheduleKeepAlive(noopTimers, c)
                     ELSE noopTimers
  /\ UNCHANGED <<dropped, idle, waiters, arrivals, allClients, closing, closingClients, connecting, retryTimers,
                 nextClientId, activityFresh, idleLong, callers>>

\* the stat failed or timed out: the catch removes the client from idle when
\* it is there, and scheduleReplacement(client)
ProbeRejected(c) ==
  /\ c \in probing
  /\ Replacing < MaxReplacing
  /\ probing' = probing \ {c}
  /\ idle' = SeqRemove(idle, c)
  /\ allClients' = allClients \ {c}
  /\ closingClients' = closingClients + 1
  /\ UNCHANGED <<dropped, waiters, arrivals, closing, noopTimers, connecting, retryTimers, nextClientId,
                 activityFresh, idleLong, callers>>

\* the keepAliveTimer interval callback, when none of its early returns is taken
KeepAliveInterval ==
  /\ ~closing
  /\ activityFresh
  /\ idleLong
  /\ Len(waiters) = 0
  /\ Len(idle) > 0
  /\ Replacing < MaxReplacing
  /\ idle' = Front(idle)
  /\ allClients' = allClients \ {Last(idle)}
  /\ closingClients' = closingClients + 1
  /\ idleLong' = FALSE
  /\ UNCHANGED <<dropped, waiters, arrivals, closing, noopTimers, probing, connecting, retryTimers, nextClientId,
                 activityFresh, callers>>

\* pool.close(): up to its await
PoolClose ==
  /\ ~closing
  /\ closing' = TRUE
  /\ noopTimers' = {}
  /\ allClients' = {}
  /\ idle' = <<>>
  /\ waiters' = <<>>
  /\ arrivals' = <<>>
  /\ callers' = [p \in Callers |->
        IF callers[p].pc = "waiting"
          THEN [IdleCaller EXCEPT !.pc = "unavailable"]
          ELSE callers[p]]
  /\ UNCHANGED <<dropped, probing, closingClients, connecting, retryTimers, nextClientId,
                 activityFresh, idleLong>>

\* markTriageActivity()
markTriageActivity ==
  /\ ~activityFresh
  /\ activityFresh' = TRUE
  /\ UNCHANGED <<dropped, idle, waiters, arrivals, allClients, closing, noopTimers, probing, closingClients,
                 connecting, retryTimers, nextClientId, idleLong, callers>>

\* TRIAGE_ACTIVITY_TTL_MS pass without activity
ActivityLapses ==
  /\ activityFresh
  /\ activityFresh' = FALSE
  /\ UNCHANGED <<dropped, idle, waiters, arrivals, allClients, closing, noopTimers, probing, closingClients,
                 connecting, retryTimers, nextClientId, idleLong, callers>>

\* keepAliveMs pass since the last touch()
PoolIdles ==
  /\ ~idleLong
  /\ idleLong' = TRUE
  /\ UNCHANGED <<dropped, idle, waiters, arrivals, allClients, closing, noopTimers, probing, closingClients,
                 connecting, retryTimers, nextClientId, activityFresh, callers>>

\* createNntpPool resolved: connectionCount clients, all idle
InitPool ==
  /\ idle = [i \in 1..NumClients |-> i]
  /\ waiters = <<>>
  /\ arrivals = <<>>
  /\ dropped = {}
  /\ allClients = 1..NumClients
  /\ closing = FALSE
  /\ noopTimers = {}
  /\ probing = {}
  /\ closingClients = 0
  /\ connecting = 0
  /\ retryTimers = 0
  /\ nextClientId = NumClients + 1
  /\ activityFresh = TRUE
  /\ idleLong = FALSE
  /\ callers = [p \in Callers |-> IdleCaller]

(***************************************************************************)
(* Triage runner: triageAndRank.  Each worker is an async loop; an action  *)
(* is the code a worker runs between two awaits.  Time advances only when  *)
(* no timer is due and no continuation is ready to run.                    *)
(***************************************************************************)
Candidates == 1..MaxCandidates
Workers == 1..MaxCandidates

\* the indexers the candidates come from, and options.serializedIndexerIds
Indexers == {"ix1", "ix2"}
serializedIndexerSet == {"ix1"}

\* the indexers of n selected candidates (the candidates past n are not there)
IndexerChoices(n) == {ix \in [Candidates -> Indexers] : \A c \in Candidates : c > n => ix[c] = "ix1"}

downloadConcurrency_Unbounded(count) == count

\* Math.max(1, Math.min(options.downloadConcurrency ?? DEFAULT_DOWNLOAD_CONCURRENCY,
\*                      selectedCandidates.length))
downloadConcurrency(count) ==
  LET least == IF NumWorkers < count THEN NumWorkers ELSE count
  IN IF least < 1 THEN 1 ELSE least
TriageHorizon == timeBudgetMs + downloadTimeoutMs + 2

\* statuses summarizeDecision can carry, and `error` for a thrown exception
AnalysisOutcomes == {"verified", "blocked", "unverified", "error"}

DoneWorker == [pc |-> "done", cand |-> 0, until |-> 0]

BudgetElapsed_Late(start, t) == t - start > timeBudgetMs

\* Date.now() - startTs >= timeBudgetMs
BudgetElapsed(start, t) == t - start >= timeBudgetMs

\* timeBudgetMs - (Date.now() - startTs)
Remaining(start, t) == timeBudgetMs - (t - start)

\* makeTimeoutDecision(url).status
TimeoutDecisionStatus == "error"

FetchFailureDecision_None == "none"

\* the status of the decision the catch of the download sets
FetchFailureDecision == "fetch-error"

DownloadDue_Never(w) == FALSE

\* the axios timeout / hardTimeoutTimer of the download worker w awaits is due
DownloadDue(w) == workers[w].pc = "downloading" /\ now >= workers[w].until

\* the withTimeout timer of the analysis worker w awaits is due
AnalysisDue(w) == workers[w].pc = "analysing" /\ now >= workers[w].until

\* one worker's `while (true)` from the top of an iteration to its next await
\* (a download begun) or its return; st: the shared cursor, timedOut,
\* decisionMap and the download history
RECURSIVE WorkerLoop(_, _, _, _)
WorkerLoop(st, start, count, t) ==
  IF st.timedOut THEN [st |-> st, worker |-> DoneWorker]
  ELSE IF st.cursor > count THEN [st |-> st, worker |-> DoneWorker]
  ELSE LET c == st.cursor
           st1 == [st EXCEPT !.cursor = c + 1]
       IN IF st1.decisionMap[c] # "none" THEN WorkerLoop(st1, start, count, t)
          ELSE IF BudgetElapsed(start, t)
            THEN WorkerLoop([st1 EXCEPT !.timedOut = TRUE,
                                        !.decisionMap[c] = TimeoutDecisionStatus],
                            start, count, t)
            ELSE [st |-> [st1 EXCEPT !.downloads = st1.downloads \cup {<<c, t>>}],
                  worker |-> [pc |-> "downloading", cand |-> c,
                              until |-> t + downloadTimeoutMs]]

\* Array.from({ length: downloadConcurrency }, async () => ...): the workers
\* run to their first await one after the other
RECURSIVE StartWorkers(_, _, _, _, _)
StartWorkers(w, acc, start, count, t) ==
  IF w > MaxCandidates THEN acc
  ELSE IF w > downloadConcurrency(count)
    THEN StartWorkers(w + 1, [acc EXCEPT !.workers[w] = DoneWorker], start, count, t)
    ELSE LET r == WorkerLoop(acc.st, start, count, t)
         IN StartWorkers(w + 1, [st |-> r.st, workers |-> [acc.workers EXCEPT ![w] = r.worker]],
                         start, count, t)

SharedState == [cursor |-> cursor, timedOut |-> timedOut, decisionMap |-> decisionMap,
                downloads |-> downloadStarts]

\* worker w goes round its loop after `decided` was stored for its candidate
Continue(w, decided, nowTimedOut) ==
  LET st0 == [SharedState EXCEPT !.decisionMap[workers[w].cand] = decided,
                                 !.timedOut = timedOut \/ nowTimedOut]
      r == WorkerLoop(st0, startTs, selectedCount, now)
  IN /\ cursor' = r.st.cursor
     /\ timedOut' = r.st.timedOut
     /\ decisionMap' = r.st.decisionMap
     /\ downloadStarts' = r.st.downloads
     /\ workers' = [workers EXCEPT ![w] = r.worker]

\* triageAndRank(nzbResults, options) with n selected candidates, to the
\* await of Promise.all(workers)
triageAndRank(n, ix) ==
  /\ phase = "idle"
  /\ startTs' = now
  /\ indexerOf' = ix
  /\ selectedCount' = n
  /\ IF n = 0
       THEN /\ phase' = "returned"
            /\ returnedAt' = now
            /\ UNCHANGED <<cursor, timedOut, decisionMap, downloadStarts, workers>>
       ELSE LET st0 == [cursor |-> 1, timedOut |-> FALSE,
                        decisionMap |-> [c \in Candidates |-> "none"], downloads |-> {}]
                r == StartWorkers(1, [st |-> st0, workers |-> workers], now, n, now)
            IN /\ cursor' = r.st.cursor
               /\ timedOut' = r.st.timedOut
               /\ decisionMap' = r.st.decisionMap
               /\ downloadStarts' = r.st.downloads
               /\ workers' = r.workers
               /\ phase' = "running"
               /\ UNCHANGED returnedAt
  /\ fetchFailures' = 0
  /\ UNCHANGED <<now, analysisStarts, abandoned>>

\* the download worker w awaits settled; ok: a non-empty payload arrived.
\* On success triageTask runs up to the await of withTimeout(triageNzbs(...))
DownloadSettled(w, ok) ==
  /\ phase = "running"
  /\ workers[w].pc = "downloading"
  /\ IF ~ok
       THEN /\ Continue(w, FetchFailureDecision, FALSE)
            /\ fetchFailures' = fetchFailures + 1
            /\ UNCHANGED analysisStarts
       ELSE IF Remaining(startTs, now) <= 0
         THEN /\ Continue(w, TimeoutDecisionStatus, TRUE)
              /\ UNCHANGED <<analysisStarts, fetchFailures>>
         ELSE /\ workers' = [workers EXCEPT ![w] =
                    [pc |-> "analysing", cand |-> workers[w].cand,
                     until |-> now + Remaining(startTs, now)]]
              /\ analysisStarts' = analysisStarts \cup {<<workers[w].cand, now>>}
              /\ UNCHANGED <<cursor, timedOut, decisionMap, downloadStarts, fetchFailures>>
  /\ UNCHANGED <<now, phase, startTs, selectedCount, returnedAt, indexerOf, abandoned>>

\* triageNzbs settled before the withTimeout timer: a decision, or `error`
AnalysisSettled(w, status) ==
  /\ phase = "running"
  /\ workers[w].pc = "analysing"
  /\ Continue(w, status, FALSE)
  /\ UNCHANGED <<now, phase, startTs, selectedCount, analysisStarts, returnedAt, indexerOf,
                 abandoned, fetchFailures>>

\* the withTimeout timer fired first: the catch with TIMEOUT_ERROR_CODE
AnalysisTimedOut(w) ==
  /\ phase = "running"
  /\ AnalysisDue(w)
  /\ Continue(w, TimeoutDecisionStatus, TRUE)
  /\ abandoned' = abandoned \cup {workers[w].cand}
  /\ UNCHANGED <<now, phase, startTs, selectedCount, analysisStarts, returnedAt, indexerOf,
                 fetchFailures>>

\* a triageNzbs call withTimeout gave up on settles; nothing awaits it any more
AbandonedSettles(c) ==
  /\ c \in abandoned
  /\ abandoned' = abandoned \ {c}
  /\ UNCHANGED <<now, phase, startTs, selectedCount, cursor, timedOut, decisionMap, workers,
                 downloadStarts, analysisStarts, returnedAt, indexerOf, fetchFailures>>

AllWorkersDone == \A w \in Workers : workers[w].pc = "done"

\* Promise.all(workers) resolved: the fill-in of the candidates without a
\* decision, and the return
RunnerReturns ==
  /\ phase = "running"
  /\ AllWorkersDone
  /\ decisionMap' = [c \in Candidates |->
        IF c <= selectedCount /\ decisionMap[c] = "none"
          THEN (IF timedOut THEN "pending" ELSE "skipped")
          ELSE decisionMap[c]]
  /\ phase' = "returned"
  /\ returnedAt' = now
  /\ UNCHANGED <<now, startTs, selectedCount, cursor, timedOut, workers,
                 downloadStarts, analysisStarts, indexerOf, abandoned, fetchFailures>>

\* the clock advances during a run: no timer is due, no continuation is ready
TriageTick ==
  /\ phase = "running"
  /\ now < TriageHorizon
  /\ ~AllWorkersDone
  /\ \A w \in Workers : ~DownloadDue(w) /\ ~AnalysisDue(w)
  /\ now' = now + 1
  /\ UNCHANGED triageVars

InitTriage ==
  /\ phase = "idle"
  /\ startTs = 0
  /\ selectedCount = 0
  /\ cursor = 1
  /\ timedOut = FALSE
  /\ decisionMap = [c \in Candidates |-> "none"]
  /\ workers = [w \in Workers |-> DoneWorker]
  /\ downloadStarts = {}
  /\ analysisStarts = {}
  /\ returnedAt = 0
  /\ indexerOf = [c \in Candidates |-> "ix1"]
  /\ abandoned = {}
  /\ fetchFailures = 0

(***************************************************************************)
(* Stream handler: the triage decisions of the releases of one response-   *)
(* cache key.  A request restores the cached snapshot, selects the         *)
(* candidates to triage, awaits triageAndRank, merges the decisions        *)
(* returned and, after further awaits, writes the snapshot of its own      *)
(* decision map into the cache.                                            *)
(***************************************************************************)
Urls == {"u1", "u2"}
Handlers == 1..NumHandlers

\* statuses triageAndRank returns for the candidates it was given
TriageStatuses == {"verified", "blocked", "unverified", "fetch-error"}

TRIAGE_FINAL_STATUSES == {"verified", "blocked", "unverified_7z"}

isTriageFinalStatus(status) == status \in TRIAGE_FINAL_STATUSES

NoDecisions == [u \in Urls |-> "none"]
NoSnapshot == [present |-> FALSE, status |-> NoDecisions]
IdleHandler == [pc |-> "idle", triageDecisions |-> NoDecisions, toRun |-> {}]

\* restoreTriageDecisions(cacheMeta.triageDecisionsSnapshot), or new Map()
restoreTriageDecisions(entry) == IF entry.present THEN entry.status ELSE NoDecisions

pendingStatuses == {"unverified", "pending"}

\* triageEligibleResults, every release being in the triage pool
triageEligibleResults(decisions) ==
  LET hasPendingRetries == \E u \in Urls : decisions[u] \in pendingStatuses
      hasVerifiedResult == \E u \in Urls : decisions[u] = "verified"
      eligible == IF hasPendingRetries THEN {u \in Urls : decisions[u] \in pendingStatuses}
                  ELSE IF ~hasVerifiedResult THEN {u \in Urls : decisions[u] = "none"}
                  ELSE {}
  IN IF eligible = {} /\ decisions = NoDecisions THEN Urls ELSE eligible

\* triageCandidatesToRun: the eligible ones without a conclusive decision
triageCandidatesToRun(decisions) ==
  {u \in triageEligibleResults(decisions) : ~isTriageFinalStatus(decisions[u])}

\* the request begins: cache lookup, restore, candidate selection, up to the
\* await of triageAndRank (or past it when nothing is to run)
StreamRequest(h) ==
  /\ handlers[h].pc = "idle"
  /\ LET decisions == restoreTriageDecisions(cachedDecisions)
         toRun == triageCandidatesToRun(decisions)
     IN handlers' = [handlers EXCEPT ![h] =
           [pc |-> IF toRun = {} THEN "merged" ELSE "triaging",
            triageDecisions |-> decisions, toRun |-> toRun]]
  /\ previousDecisions' = cachedDecisions
  /\ UNCHANGED cachedDecisions

\* triageAndRank returned: latestDecisions.forEach(triageDecisions.set)
TriageOutcome(h, latest) ==
  /\ handlers[h].pc = "triaging"
  /\ handlers' = [handlers EXCEPT ![h] =
        [pc |-> "merged",
         triageDecisions |-> [u \in Urls |->
             IF u \in handlers[h].toRun THEN latest[u] ELSE handlers[h].triageDecisions[u]],
         toRun |-> {}]]
  /\ previousDecisions' = cachedDecisions
  /\ UNCHANGED cachedDecisions

\* setStreamCacheEntry(streamCacheKey, responsePayload, cacheMeta) with
\* triageDecisionsSnapshot = the request's decision map; the response is sent
CacheWrite(h) ==
  /\ handlers[h].pc = "merged"
  /\ cachedDecisions' = [present |-> TRUE, status |-> handlers[h].triageDecisions]
  /\ previousDecisions' = cachedDecisions
  /\ handlers' = [handlers EXCEPT ![h] = IdleHandler]

\* the entry expires, is evicted, or the caches are cleared
EntryDropped ==
  /\ cachedDecisions.present
  /\ cachedDecisions' = NoSnapshot
  /\ previousDecisions' = cachedDecisions
  /\ UNCHANGED handlers

InitDecisions ==
  /\ cachedDecisions = NoSnapshot
  /\ previousDecisions = NoSnapshot
  /\ handlers = [h \in Handlers |-> IdleHandler]

(***************************************************************************)
(* Shared NNTP pool: preWarmNntpPool / triageNzbs / closeSharedNntpPool.   *)
(* A call is an async function; an action is its code between two awaits.  *)
(* pool.close() marks the pool closed when it is called and settles later. *)
(***************************************************************************)
PoolCalls == 1..NumPoolCalls
PoolBuildIds == 1..MaxPoolBuilds
PoolIds == 1..MaxPools
PoolKeys == {"cfgA", "cfgB"}
NoPool == 0

NoRecord == [key |-> "none", pool |-> NoPool]

\* kind: prewarm | triage; pool: the fresh pool while a pre-warm closes the old one
NoPoolBuild == [state |-> "unused", kind |-> "none", key |-> "none", pool |-> NoPool]

\* build: the promise awaited; pool: nntpPool of a triage call
IdlePoolCall == [pc |-> "idle", kind |-> "none", key |-> "none", build |-> 0, pool |-> NoPool]

\* isSharedPoolStale()
isSharedPoolStale == sharedNntpPoolRecord.pool # NoPool /\ sharedIdle

\* clearInFlightPoolBuild(promise)
clearInFlightPoolBuild(promise) ==
  IF sharedNntpPoolBuildPromise = promise THEN 0 ELSE sharedNntpPoolBuildPromise

\* pool.close(): the pools after the call
ClosePool(pool) == [pools EXCEPT ![pool] = "closed"]

\* a build promise is made and registered with setInFlightPoolBuild
StartPoolBuild(c, kind, key) ==
  /\ nextPoolBuild <= MaxPoolBuilds
  /\ poolBuilds' = [poolBuilds EXCEPT ![nextPoolBuild] =
        [state |-> "running", kind |-> kind, key |-> key, pool |-> NoPool]]
  /\ nextPoolBuild' = nextPoolBuild + 1
  /\ sharedNntpPoolBuildPromise' = nextPoolBuild
  /\ poolCalls' = [poolCalls EXCEPT ![c] =
        [pc |-> "awaitBuild", kind |-> kind, key |-> key, build |-> nextPoolBuild,
         pool |-> NoPool]]

\* `await existingBuild` / `await buildPromise` on the build in flight
JoinPoolBuild(c, kind, key) ==
  /\ poolCalls' = [poolCalls EXCEPT ![c] =
        [pc |-> "awaitBuild", kind |-> kind, key |-> key,
         build |-> sharedNntpPoolBuildPromise, pool |-> NoPool]]
  /\ UNCHANGED <<poolBuilds, nextPoolBuild, sharedNntpPoolBuildPromise>>

\* `await closeSharedNntpPool(reason)` up to the await of pool.close()
BeginCloseShared(c, kind, key) ==
  /\ pools' = ClosePool(sharedNntpPoolRecord.pool)
  /\ poolCalls' = [poolCalls EXCEPT ![c] =
        [pc |-> "closing", kind |-> kind, key |-> key, build |-> 0, pool |-> NoPool]]

\* preWarmNntpPool(options) up to its first await
preWarmNntpPool(c, key) ==
  /\ poolCalls[c].pc = "idle"
  /\ IF sharedNntpPoolBuildPromise # 0
       THEN /\ JoinPoolBuild(c, "prewarm", key)
            /\ UNCHANGED <<sharedNntpPoolRecord, pools, sharedIdle>>
       ELSE IF sharedNntpPoolRecord.key = key /\ sharedNntpPoolRecord.pool # NoPool
         THEN IF isSharedPoolStale
                THEN /\ BeginCloseShared(c, "prewarm", key)
                     /\ UNCHANGED <<sharedNntpPoolRecord, sharedNntpPoolBuildPromise,
                                    poolBuilds, nextPoolBuild, sharedIdle>>
                ELSE /\ sharedIdle' = FALSE
                     /\ UNCHANGED poolCalls
                     /\ UNCHANGED <<sharedNntpPoolRecord, sharedNntpPoolBuildPromise,
                                    poolBuilds, nextPoolBuild, pools>>
         ELSE /\ StartPoolBuild(c, "prewarm", key)
              /\ UNCHANGED <<sharedNntpPoolRecord, pools, sharedIdle>>
  /\ UNCHANGED <<nextPool, evictions>>

\* triageNzbs(nzbStrings, options) with reuseNntpPool, up to its first await
triageNzbs(c, key) ==
  /\ poolCalls[c].pc = "idle"
  /\ sharedIdle' = FALSE
  /\ IF ~isSharedPoolStale /\ sharedNntpPoolRecord.key = key
          /\ sharedNntpPoolRecord.pool # NoPool
       THEN /\ poolCalls' = [poolCalls EXCEPT ![c] =
                  [pc |-> "checking", kind |-> "triage", key |-> key, build |-> 0,
                   pool |-> sharedNntpPoolRecord.pool]]
            /\ UNCHANGED <<sharedNntpPoolBuildPromise, poolBuilds, nextPoolBuild, pools>>
       ELSE IF sharedNntpPoolRecord.pool # NoPool /\ sharedNntpPoolBuildPromise = 0
         THEN /\ BeginCloseShared(c, "triage", key)
              /\ UNCHANGED <<sharedNntpPoolBuildPromise, poolBuilds, nextPoolBuild>>
         ELSE IF sharedNntpPoolBuildPromise # 0
           THEN JoinPoolBuild(c, "triage", key) /\ UNCHANGED pools
           ELSE StartPoolBuild(c, "triage", key) /\ UNCHANGED pools
  /\ UNCHANGED <<sharedNntpPoolRecord, nextPool, evictions>>

\* the awaiters of build b resume: a triage call with the promise's value as
\* its nntpPool, a pre-warm call returns
Resumed(b, value) ==
  [c \in PoolCalls |->
     IF poolCalls[c].pc = "awaitBuild" /\ poolCalls[c].build = b
       THEN IF poolCalls[c].kind = "triage"
              THEN [poolCalls[c] EXCEPT !.pc = "checking", !.pool = value]
              ELSE IdlePoolCall
       ELSE poolCalls[c]]

\* closeSharedNntpPool: pool.close() settled, `sharedNntpPoolRecord = null`,
\* and the caller goes on: preWarmNntpPool builds, triageNzbs joins or builds
CloseSharedSettled(c) ==
  /\ poolCalls[c].pc = "closing"
  /\ sharedNntpPoolRecord' = NoRecord
  /\ sharedIdle' = FALSE
  /\ IF poolCalls[c].kind = "triage" /\ sharedNntpPoolBuildPromise # 0
       THEN JoinPoolBuild(c, "triage", poolCalls[c].key)
       ELSE StartPoolBuild(c, poolCalls[c].kind, poolCalls[c].key)
  /\ UNCHANGED <<pools, nextPool, evictions>>

\* createNntpPool fulfilled inside the build promise of b
CreatePoolFulfilled(b) ==
  /\ poolBuilds[b].state = "running"
  /\ nextPool <= MaxPools
  /\ nextPool' = nextPool + 1
  /\ IF poolBuilds[b].kind = "prewarm" /\ sharedNntpPoolRecord.pool # NoPool
       THEN \* await closePool(sharedNntpPoolRecord.pool, 'prewarm-replaced')
            /\ pools' = [pools EXCEPT ![nextPool] = "open",
                                      ![sharedNntpPoolRecord.pool] = "closed"]
            /\ poolBuilds' = [poolBuilds EXCEPT ![b].state = "closingOld", ![b].pool = nextPool]
            /\ UNCHANGED <<sharedNntpPoolRecord, sharedNntpPoolBuildPromise, sharedIdle,
                           poolCalls>>
       ELSE /\ pools' = [pools EXCEPT ![nextPool] = "open"]
            /\ sharedNntpPoolRecord' = [key |-> poolBuilds[b].key, pool |-> nextPool]
            /\ sharedIdle' = FALSE
            /\ poolBuilds' = [poolBuilds EXCEPT ![b].state = "fulfilled", ![b].pool = nextPool]
            /\ sharedNntpPoolBuildPromise' = clearInFlightPoolBuild(b)
            /\ poolCalls' = Resumed(b, IF poolBuilds[b].kind = "triage" THEN nextPool ELSE NoPool)
  /\ UNCHANGED <<nextPoolBuild, evictions>>

\* the pre-warm build's closePool of the previous pool settled
PrewarmOldClosed(b) ==
  /\ poolBuilds[b].state = "closingOld"
  /\ sharedNntpPoolRecord' = [key |-> poolBuilds[b].key, pool |-> poolBuilds[b].pool]
  /\ sharedIdle' = FALSE
  /\ poolBuilds' = [poolBuilds EXCEPT ![b].state = "fulfilled"]
  /\ sharedNntpPoolBuildPromise' = clearInFlightPoolBuild(b)
  /\ poolCalls' = Resumed(b, NoPool)
  /\ UNCHANGED <<pools, nextPoolBuild, nextPool, evictions>>

\* createNntpPool rejected: the pre-warm wrapper swallows the error; the
\* catch of triageNzbs clears whatever build is registered
CreatePoolRejected(b) ==
  /\ poolBuilds[b].state = "running"
  /\ poolBuilds' = [poolBuilds EXCEPT ![b].state = "failed"]
  /\ sharedNntpPoolBuildPromise' =
        IF poolBuilds[b].kind = "triage" THEN 0 ELSE clearInFlightPoolBuild(b)
  /\ poolCalls' = Resumed(b, NoPool)
  /\ UNCHANGED <<sharedNntpPoolRecord, pools, nextPoolBuild, nextPool, sharedIdle, evictions>>

\* triageNzbs after analyzeWithConcurrency: nntpPool.touch(), return
TriageChecked(c) ==
  /\ poolCalls[c].pc = "checking"
  /\ sharedIdle' = IF poolCalls[c].pool # NoPool /\ poolCalls[c].pool = sharedNntpPoolRecord.pool
                     THEN FALSE ELSE sharedIdle
  /\ poolCalls' = [poolCalls EXCEPT ![c] = IdlePoolCall]
  /\ UNCHANGED <<sharedNntpPoolRecord, sharedNntpPoolBuildPromise, poolBuilds, pools,
                 nextPoolBuild, nextPool, evictions>>

\* TRIAGE_ACTIVITY_TTL_MS pass with no triage activity and no use of the pool
SharedPoolIdles ==
  /\ sharedNntpPoolRecord.pool # NoPool
  /\ ~sharedIdle
  /\ \A c \in PoolCalls : poolCalls[c].pc # "checking"
  /\ sharedIdle' = TRUE
  /\ UNCHANGED <<sharedNntpPoolRecord, sharedNntpPoolBuildPromise, poolBuilds, pools,
                 nextPoolBuild, nextPool, evictions, poolCalls>>

\* evictStaleSharedNntpPool() from the monitor interval, up to its await
evictStaleSharedNntpPool ==
  /\ isSharedPoolStale
  /\ evictions < MaxEvictions
  /\ evictions' = evictions + 1
  /\ pools' = ClosePool(sharedNntpPoolRecord.pool)
  /\ UNCHANGED <<sharedNntpPoolRecord, sharedNntpPoolBuildPromise, poolBuilds,
                 nextPoolBuild, nextPool, sharedIdle, poolCalls>>

\* the eviction's pool.close() settled: `sharedNntpPoolRecord = null`
EvictionSettled ==
  /\ evictions > 0
  /\ evictions' = evictions - 1
  /\ sharedNntpPoolRecord' = NoRecord
  /\ sharedIdle' = FALSE
  /\ UNCHANGED <<sharedNntpPoolBuildPromise, poolBuilds, pools, nextPoolBuild, nextPool,
                 poolCalls>>

InitShared ==
  /\ sharedNntpPoolRecord = NoRecord
  /\ sharedNntpPoolBuildPromise = 0
  /\ poolBuilds = [b \in PoolBuildIds |-> NoPoolBuild]
  /\ pools = [q \in PoolIds |-> "none"]
  /\ nextPoolBuild = 1
  /\ nextPool = 1
  /\ sharedIdle = FALSE
  /\ evictions = 0
  /\ poolCalls = [c \in PoolCalls |-> IdlePoolCall]

(***************************************************************************)
(* Aggregator circuit breaker: executeManagerPlanWithBackoff and the reset *)
(* of its deadline by rebuildRuntimeConfig.  The clock counts the seconds  *)
(* INDEXER_MANAGER_BACKOFF_SECONDS is given in.                            *)
(***************************************************************************)
ManagerCalls == 1..NumManagerCalls
Managers == {"none", "prowlarr"}
BackoffSeconds == 1..MaxBackoff

\* a call not made yet; outcome: none | empty | backoff | results | threw
IdleManagerCall == [pc |-> "idle", outcome |-> "none", at |-> 0]

BackoffDeadline_Now(t, seconds) == t

\* Date.now() + (INDEXER_MANAGER_BACKOFF_SECONDS * 1000)
BackoffDeadline(t, seconds) == t + seconds

\* executeManagerPlanWithBackoff(plan), to the promise it returns
executeManagerPlanWithBackoff(c) ==
  /\ managerCalls[c].pc = "idle"
  /\ managerCalls' = [managerCalls EXCEPT ![c] =
        IF INDEXER_MANAGER = "none"
          THEN [pc |-> "idle", outcome |-> "empty", at |-> now]
        ELSE IF INDEXER_MANAGER_BACKOFF_ENABLED /\ indexerManagerUnavailableUntil > now
          THEN [pc |-> "idle", outcome |-> "backoff", at |-> now]
          ELSE [pc |-> "upstream", outcome |-> "none", at |-> now]]
  /\ UNCHANGED <<INDEXER_MANAGER, INDEXER_MANAGER_BACKOFF_ENABLED,
                 INDEXER_MANAGER_BACKOFF_SECONDS, indexerManagerUnavailableUntil,
                 failedAt, failedWindow, reloadedSince>>

\* indexerService.executeIndexerPlan(plan) fulfilled: the .then
ManagerSearchFulfilled(c) ==
  /\ managerCalls[c].pc = "upstream"
  /\ managerCalls' = [managerCalls EXCEPT ![c].pc = "idle", ![c].outcome = "results"]
  /\ UNCHANGED <<INDEXER_MANAGER, INDEXER_MANAGER_BACKOFF_ENABLED,
                 INDEXER_MANAGER_BACKOFF_SECONDS, indexerManagerUnavailableUntil,
                 failedAt, failedWindow, reloadedSince>>

\* indexerService.executeIndexerPlan(plan) rejected: the .catch, which rethrows
ManagerSearchRejected(c) ==
  /\ managerCalls[c].pc = "upstream"
  /\ managerCalls' = [managerCalls EXCEPT ![c].pc = "idle", ![c].outcome = "threw"]
  /\ IF INDEXER_MANAGER_BACKOFF_ENABLED
       THEN /\ indexerManagerUnavailableUntil' =
                  BackoffDeadline(now, INDEXER_MANAGER_BACKOFF_SECONDS)
            /\ failedAt' = now
            /\ failedWindow' = INDEXER_MANAGER_BACKOFF_SECONDS
            /\ reloadedSince' = FALSE
       ELSE UNCHANGED <<indexerManagerUnavailableUntil, failedAt, failedWindow, reloadedSince>>
  /\ UNCHANGED <<INDEXER_MANAGER, INDEXER_MANAGER_BACKOFF_ENABLED,
                 INDEXER_MANAGER_BACKOFF_SECONDS>>

\* rebuildRuntimeConfig(): the manager settings are read again from the
\* environment and the deadline is cleared
rebuildRuntimeConfig(manager, enabled, seconds) ==
  /\ INDEXER_MANAGER' = manager
  /\ INDEXER_MANAGER_BACKOFF_ENABLED' = enabled
  /\ INDEXER_MANAGER_BACKOFF_SECONDS' = seconds
  /\ indexerManagerUnavailableUntil' = 0
  /\ reloadedSince' = TRUE
  /\ UNCHANGED <<managerCalls, failedAt, failedWindow>>

BreakerTick ==
  /\ now < MaxTime
  /\ now' = now + 1
  /\ UNCHANGED breakerVars

\* the state after the rebuildRuntimeConfig({ log: false }) of start-up
InitBreaker ==
  /\ INDEXER_MANAGER = "prowlarr"
  /\ INDEXER_MANAGER_BACKOFF_ENABLED = TRUE
  /\ INDEXER_MANAGER_BACKOFF_SECONDS = MaxBackoff
  /\ indexerManagerUnavailableUntil = 0
  /\ managerCalls = [c \in ManagerCalls |-> IdleManagerCall]
  /\ failedAt = 0
  /\ failedWindow = 0
  /\ reloadedSince = FALSE

(***************************************************************************)
(* Indexer searches: retryWithBackoff under axiosGetWithRetry, as the      *)
(* direct Newznab client (fetchIndexerResults, fanned out by               *)
(* searchNewznabIndexers) and the aggregator client (executeProwlarrSearch)*)
(* use it.  Delays are in units of 100 ms.                                 *)
(***************************************************************************)
NewznabConfigs == {"nzb1", "nzb2"}
ManagerTask == "manager"
Tasks == NewznabConfigs \cup {ManagerTask}

Variant(t) == IF t = ManagerTask THEN "aggregator" ELSE "newznab"

\* what one axios.get can end with: a network error with its code, or an HTTP
\* response with its status and, for Newznab, an <error> element or items
NetworkError(code) == [kind |-> "error", code |-> code, status |-> 0, body |-> "none"]
HttpResponse(status, body) == [kind |-> "response", code |-> "none", status |-> status, body |-> body]
NoReply == [kind |-> "none", code |-> "none", status |-> 0, body |-> "none"]

Replies ==
  {NetworkError(code) : code \in {"ECONNRESET", "ECONNABORTED", "EPROTO"}}
    \cup {HttpResponse(status, "items") : status \in {200, 401, 403, 404, 429, 503}}
    \cup {HttpResponse(200, "error")}

IdleTask == [pc |-> "idle", attempt |-> 0, attempts |-> 0, last |-> NoReply, delay |-> 0]

\* validateStatus: () => true in fetchIndexerResults; the axios default
\* (status >= 200 && status < 300) in executeProwlarrSearch
ValidateStatus(variant, status) ==
  IF variant = "newznab" THEN TRUE ELSE status >= 200 /\ status < 300

\* axios.get rejects: a network error, or a status validateStatus refuses
AxiosRejects(variant, reply) ==
  reply.kind = "error" \/ ~ValidateStatus(variant, reply.status)

\* the maxRetries option of the axiosGetWithRetry call
maxRetries(variant) == IF variant = "newznab" THEN 2 ELSE 3

\* defaultShouldRetry(error)
defaultShouldRetry(error) ==
  \/ error.code \in {"ECONNRESET", "ENOTFOUND", "ETIMEDOUT", "ECONNREFUSED", "EAI_AGAIN"}
  \/ error.code = "ECONNABORTED"
  \/ error.kind = "response" /\ error.status >= 500 /\ error.status < 600
  \/ error.kind = "response" /\ error.status = 429

\* initialDelay * Math.pow(backoffMultiplier, attempt)
ExponentialDelay(attempt) == initialDelay * 2 ^ attempt

\* Math.random() * 0.3 * exponentialDelay, at its least and close to its most
JitterChoices(attempt) == {0, (3 * ExponentialDelay(attempt)) \div 10 - 1}

\* calculateDelay(attempt, initialDelay, maxDelay, backoffMultiplier)
calculateDelay(attempt, jitter) ==
  LET delay == ExponentialDelay(attempt) + jitter
  IN IF delay < maxDelay THEN delay ELSE maxDelay

\* fetchIndexerResults after its await: the throws on 401/403, on a status
\* >= 400 and on an <error> element
HardError(reply) == reply.status >= 400 \/ reply.body = "error"

\* the axios.get of task t settled with reply: the catch of retryWithBackoff
\* when it rejected, the rest of the caller when it fulfilled
ReplyArrives(t, reply, jitter) ==
  /\ tasks[t].pc = "requesting"
  /\ tasks' = [tasks EXCEPT ![t] =
        IF AxiosRejects(Variant(t), reply)
          THEN IF tasks[t].attempt >= maxRetries(Variant(t)) \/ ~defaultShouldRetry(reply)
                 THEN [@ EXCEPT !.pc = "rejected", !.last = reply]
                 ELSE [@ EXCEPT !.pc = "sleeping", !.last = reply,
                                !.delay = calculateDelay(tasks[t].attempt, jitter)]
        ELSE IF Variant(t) = "newznab" /\ HardError(reply)
          THEN [@ EXCEPT !.pc = "rejected", !.last = reply]
          ELSE [@ EXCEPT !.pc = "fulfilled", !.last = reply]]
  /\ UNCHANGED newznab

\* the setTimeout(resolve, delay) of retryWithBackoff fired: the next attempt
RetryDelayElapsed(t) ==
  /\ tasks[t].pc = "sleeping"
  /\ tasks' = [tasks EXCEPT ![t] = [@ EXCEPT !.pc = "requesting", !.attempt = @ + 1,
                                             !.attempts = @ + 1, !.delay = 0]]
  /\ UNCHANGED newznab

\* executeProwlarrSearch(plan), to its await
executeProwlarrSearch ==
  /\ tasks[ManagerTask].pc = "idle"
  /\ tasks' = [tasks EXCEPT ![ManagerTask] = [IdleTask EXCEPT !.pc = "requesting", !.attempts = 1]]
  /\ UNCHANGED newznab

\* searchNewznabIndexers(plan, configs) with the given usable configs, to
\* its await of Promise.allSettled(tasks)
searchNewznabIndexers(eligible) ==
  /\ newznab.pc = "idle"
  /\ IF eligible = {}
       THEN /\ newznab' = [pc |-> "returned", eligible |-> {}, results |-> {},
                           errors |-> {"none-configured"}]
            /\ UNCHANGED tasks
       ELSE /\ newznab' = [newznab EXCEPT !.pc = "awaiting", !.eligible = eligible]
            /\ tasks' = [t \in Tasks |->
                  IF t \in eligible
                    THEN [IdleTask EXCEPT !.pc = "requesting", !.attempts = 1]
                    ELSE tasks[t]]

Aggregated_AllOrNothing(eligible) ==
  IF \E i \in eligible : tasks[i].pc = "rejected" THEN {} ELSE eligible

\* the configs whose items settled.forEach pushes to `aggregated`
Aggregated(eligible) == {i \in eligible : tasks[i].pc = "fulfilled"}

\* the configs settled.forEach pushes an error for
Failed(eligible) == {i \in eligible : tasks[i].pc = "rejected"}

\* Promise.allSettled(tasks) resolved: settled.forEach, and the return
NewznabSettled ==
  /\ newznab.pc = "awaiting"
  /\ \A i \in newznab.eligible : tasks[i].pc \in {"fulfilled", "rejected"}
  /\ newznab' = [newznab EXCEPT !.pc = "returned",
                                !.results = Aggregated(newznab.eligible),
                                !.errors = Failed(newznab.eligible)]
  /\ UNCHANGED tasks

InitSearch ==
  /\ tasks = [t \in Tasks |-> IdleTask]
  /\ newznab = [pc |-> "idle", eligible |-> {}, results |-> {}, errors |-> {}]

(***************************************************************************)
(* HTTP front: the Express chain of server.js in registration order, with  *)
(* ensureSharedSecret / extractTokenFromRequest.  A path is the sequence   *)
(* of its segments: /admin/stream/x is <<"admin", "stream", "x">>.         *)
(***************************************************************************)
Secret == "s3cret"
Segments == {Secret, "admin", "api", "stream", "nzb", "manifest.json", "x"}
Tokens == {"", Secret, "wrong"}
Methods == {"GET", "OPTIONS"}

RECURSIVE PathsOfLength(_)
PathsOfLength(n) ==
  IF n = 0 THEN {<<>>}
  ELSE {Append(path, seg) : path \in PathsOfLength(n - 1), seg \in Segments}

Paths == UNION {PathsOfLength(n) : n \in 0..MaxPathLen}

Requests == [method : Methods, path : Paths, header : Tokens]
NoRequest == [method |-> "none", path |-> <<>>, header |-> ""]

\* the path starts with the given segments (an app.use mount path)
Under(path, prefix) ==
  Len(path) >= Len(prefix) /\ SubSeq(path, 1, Len(prefix)) = prefix

\* the route words of the pathMatch regular expression
TokenRoutes == {"manifest.json", "stream", "nzb", "easynews"}

\* extractTokenFromRequest(req): req.path, req.params.token and the
\* authorization / x-addon-token header
extractTokenFromRequest(path, paramToken, header) ==
  IF Len(path) >= 2 /\ path[2] \in TokenRoutes THEN path[1]
  ELSE IF paramToken # "" THEN paramToken
  ELSE header

\* ensureSharedSecret(req, res, next) calls next() (TRUE) or answers 401
ensureSharedSecret(method, path, paramToken, header) ==
  \/ sharedSecret = ""
  \/ method = "OPTIONS"
  \/ LET providedToken == extractTokenFromRequest(path, paramToken, header)
     IN providedToken # "" /\ providedToken = sharedSecret

\* the exemptions of the app.use middleware before the routes: /assets/,
\* /admin but not /admin/api, /<x>/admin but not /<x>/admin/api
GateExempt(path) ==
  \/ Under(path, <<"assets">>) /\ Len(path) >= 2
  \/ Under(path, <<"admin">>) /\ ~Under(path, <<"admin", "api">>)
  \/ Len(path) >= 2 /\ path[2] = "admin" /\ ~(Len(path) >= 3 /\ path[3] = "api")

\* the handler app.get(route, handler) dispatches the path to
RouteOf(path) ==
  IF path = <<"manifest.json">> \/ (Len(path) = 2 /\ path[2] = "manifest.json")
    THEN "manifestHandler"
  ELSE IF (Len(path) = 3 /\ path[1] = "stream") \/ (Len(path) = 4 /\ path[2] = "stream")
    THEN "streamHandler"
  ELSE IF path = <<"nzb", "stream">> \/ (Len(path) = 3 /\ path[2] = "nzb" /\ path[3] = "stream")
    THEN "handleNzbdavStream"
  ELSE "none"

Respond(status, handler) ==
  /\ authStage' = "done"
  /\ authStatus' = status
  /\ invoked' = handler
  /\ UNCHANGED <<sharedSecret, authReq>>

PassTo(stage) ==
  /\ authStage' = stage
  /\ UNCHANGED <<sharedSecret, authReq, authStatus, invoked>>

\* a request arrives
Receive(req) ==
  /\ authStage = "idle"
  /\ authReq' = req
  /\ authStage' = "cors"
  /\ authStatus' = 0
  /\ invoked' = "none"
  /\ UNCHANGED sharedSecret

\* app.use(cors()): a preflight is answered here
CorsMiddleware ==
  /\ authStage = "cors"
  /\ IF authReq.method = "OPTIONS" THEN Respond(204, "none") ELSE PassTo("adminApi")

\* app.use('/admin/api', ensureSharedSecret, adminApiRouter): req.path is the
\* part of the path after the mount
AdminApiMount ==
  /\ authStage = "adminApi"
  /\ IF Under(authReq.path, <<"admin", "api">>)
       THEN IF ensureSharedSecret(authReq.method, SubSeq(authReq.path, 3, Len(authReq.path)),
                                  "", authReq.header)
              THEN Respond(200, "adminApiRouter")
              ELSE Respond(401, "none")
       ELSE PassTo("adminStatic")

\* app.use('/admin', adminStatic): the admin page is served, any other path
\* under /admin is no file and falls through
AdminStaticMount ==
  /\ authStage = "adminStatic"
  /\ IF authReq.path = <<"admin">> THEN Respond(200, "adminStatic") ELSE PassTo("tokenAdmin")

\* app.use('/:token/admin', ...): ensureSharedSecret with req.params.token
TokenAdminMount ==
  /\ authStage = "tokenAdmin"
  /\ IF Len(authReq.path) >= 2 /\ authReq.path[2] = "admin"
       THEN IF ~ensureSharedSecret(authReq.method, SubSeq(authReq.path, 3, Len(authReq.path)),
                                   authReq.path[1], authReq.header)
              THEN Respond(401, "none")
            ELSE IF Len(authReq.path) = 2 THEN Respond(200, "adminStatic")
            ELSE PassTo("open")
       ELSE PassTo("open")

\* app.get('/') and app.get('/health'): no authentication
OpenRoutes ==
  /\ authStage = "open"
  /\ IF authReq.path = <<>> THEN Respond(302, "none")
     ELSE IF authReq.path = <<"health">> THEN Respond(200, "health")
     ELSE PassTo("gate")

\* the app.use middleware in front of the routes
SecretGate ==
  /\ authStage = "gate"
  /\ IF GateExempt(authReq.path) THEN PassTo("routes")
     ELSE IF ensureSharedSecret(authReq.method, authReq.path, "", authReq.header)
       THEN PassTo("routes")
       ELSE Respond(401, "none")

\* the manifest, stream and playback routes; no route: 404
Routes ==
  /\ authStage = "routes"
  /\ IF RouteOf(authReq.path) = "none" THEN Respond(404, "none")
     ELSE Respond(200, RouteOf(authReq.path))

\* the response was sent
RequestEnds ==
  /\ authStage = "done"
  /\ authStage' = "idle"
  /\ authReq' = NoRequest
  /\ authStatus' = 0
  /\ invoked' = "none"
  /\ UNCHANGED sharedSecret

InitAuth ==
  /\ sharedSecret = Secret
  /\ authReq = NoRequest
  /\ authStage = "idle"
  /\ authStatus = 0
  /\ invoked = "none"

(***************************************************************************)
(* The stream handler for one cache key: the response cache lookup, the    *)
(* selection of triage candidates, the triage run and the cache write.     *)
(* The search returns the releases of SearchOrder, each with a normalized  *)
(* title and a publish day; every release carries a publish date and is    *)
(* from a health-checked indexer.  A decision map is a JavaScript Map: a   *)
(* sequence of [url, status] in insertion order.                           *)
(***************************************************************************)
Releases == {"r1", "r2", "r3"}
SearchOrder == <<"r1", "r2", "r3">>
Titles == {"tA", "tB"}
PublishDays == {0, 10, 20}
TRIAGE_DECISION_SHARING_WINDOW_DAYS == 14
DEDUPE_MAX_PUBLISH_DIFF_DAYS == 14

\* statuses of the decisions triageAndRank returns
RunnerStatuses ==
  {"verified", "blocked", "unverified_7z", "unverified", "fetch-error", "error", "pending"}

Range(seq) == {seq[i] : i \in 1..Len(seq)}

NoStreamEntry ==
  [present |-> FALSE, triageComplete |-> FALSE, pending |-> {},
   finalNzbResults |-> <<>>, snapshot |-> <<>>]

IdleStreamReq ==
  [pc |-> "idle", hit |-> FALSE, hitComplete |-> FALSE, searched |-> FALSE,
   results |-> <<>>, cached |-> <<>>, triageDecisions |-> <<>>,
   eligible |-> {}, toRun |-> {}, ran |-> {}, outcome |-> FALSE, timedOut |-> FALSE,
   rewrote |-> FALSE, wroteComplete |-> FALSE]

\* triageDecisions.get(url)?.status
getDecisionStatus(decisions, url) ==
  LET at == {i \in 1..Len(decisions) : decisions[i].url = url}
  IN IF at = {} THEN "none" ELSE decisions[CHOOSE i \in at : TRUE].status

\* triageDecisions.set(url, decision): a known key keeps its place
DecisionSet(decisions, url, status) ==
  IF \E i \in 1..Len(decisions) : decisions[i].url = url
  THEN [i \in 1..Len(decisions) |->
          IF decisions[i].url = url THEN [url |-> url, status |-> status] ELSE decisions[i]]
  ELSE Append(decisions, [url |-> url, status |-> status])

\* latestDecisions.forEach(set), the candidates taken in the order of the results
RECURSIVE MergeDecisions(_, _, _, _)
MergeDecisions(decisions, latest, results, i) ==
  IF i > Len(results) THEN decisions
  ELSE MergeDecisions(
         IF results[i] \in DOMAIN latest
         THEN DecisionSet(decisions, results[i], latest[results[i]]) ELSE decisions,
         latest, results, i + 1)

triageStatusRank(status) ==
  CASE status \in {"blocked", "fetch-error", "error"} -> 4
    [] status = "verified" -> 3
    [] status \in {"unverified_7z", "unverified"} -> 2
    [] status \in {"pending", "skipped"} -> 1
    [] OTHER -> 0

NoDerived == [status |-> "none", url |-> "none"]

RECURSIVE TitleMapUpTo(_, _)
TitleMapUpTo(decisions, n) ==
  IF n = 0 THEN [t \in Titles |-> NoDerived]
  ELSE LET before == TitleMapUpTo(decisions, n - 1)
           decision == decisions[n]
           normalizedTitle == streamPool.title[decision.url]
           existing == before[normalizedTitle]
       IN IF decision.status \in {"pending", "skipped"} THEN before
          ELSE IF existing = NoDerived
                  \/ triageStatusRank(decision.status) >= triageStatusRank(existing.status)
            THEN [before EXCEPT ![normalizedTitle] =
                    [status |-> decision.status, url |-> decision.url]]
          ELSE before

\* buildTriageTitleMap(decisions): per normalized title, the decision kept
buildTriageTitleMap(decisions) == TitleMapUpTo(decisions, Len(decisions))

areReleasesWithinDays(referenceDay, candidateDay, days) ==
  \/ days <= 0
  \/ (IF referenceDay >= candidateDay THEN referenceDay - candidateDay
      ELSE candidateDay - referenceDay) <= days

canShareDecision(decisionDay, candidateDay) ==
  areReleasesWithinDays(decisionDay, candidateDay, TRIAGE_DECISION_SHARING_WINDOW_DAYS)

candidateHasConclusiveDecision_AnyStatus(decisions, titleMap, candidate) ==
  getDecisionStatus(decisions, candidate) # "none"

candidateHasConclusiveDecision(decisions, titleMap, candidate) ==
  \/ isTriageFinalStatus(getDecisionStatus(decisions, candidate))
  \/ LET derived == titleMap[streamPool.title[candidate]]
     IN /\ derived # NoDerived
        /\ isTriageFinalStatus(derived.status)
        /\ canShareDecision(streamPool.day[derived.url], streamPool.day[candidate])

RECURSIVE Prioritized(_, _, _, _, _, _)
Prioritized(results, i, maxCandidates, includable, seenTitles, selected) ==
  IF i > Len(results) \/ Len(selected) >= (IF maxCandidates > 1 THEN maxCandidates ELSE 1)
  THEN selected
  ELSE IF streamPool.title[results[i]] \in seenTitles \/ results[i] \notin includable
    THEN Prioritized(results, i + 1, maxCandidates, includable, seenTitles, selected)
  ELSE Prioritized(results, i + 1, maxCandidates, includable,
                   seenTitles \cup {streamPool.title[results[i]]}, Append(selected, results[i]))

\* prioritizeTriageCandidates(results, maxCandidates, {shouldInclude}), the
\* candidates shouldInclude accepts given as a set
prioritizeTriageCandidates(results, maxCandidates, includable) ==
  Prioritized(results, 1, maxCandidates, includable, {}, <<>>)

RECURSIVE DedupedUpTo(_, _)
DedupedUpTo(results, n) ==
  IF n = 0 THEN <<>>
  ELSE LET deduped == DedupedUpTo(results, n - 1)
           result == results[n]
           bucket == {i \in 1..Len(deduped) :
                        /\ streamPool.title[deduped[i]] = streamPool.title[result]
                        /\ areReleasesWithinDays(streamPool.day[deduped[i]],
                                                 streamPool.day[result],
                                                 DEDUPE_MAX_PUBLISH_DIFF_DAYS)}
       IN IF bucket = {} THEN Append(deduped, result)
          ELSE LET matched == CHOOSE i \in bucket : \A j \in bucket : i <= j
               IN IF streamPool.day[result] > streamPool.day[deduped[matched]]
                  THEN [deduped EXCEPT ![matched] = result]
                  ELSE deduped

\* dedupeResultsByTitle(results), the indexers being all paid or all free
dedupeResultsByTitle(results) == DedupedUpTo(results, Len(results))

eligibleResults_Unfiltered(triagePool, decisions) ==
  prioritizeTriageCandidates(triagePool, TRIAGE_MAX_CANDIDATES, Range(triagePool))

\* triageEligibleResults of the handler, as a list
eligibleResults(triagePool, decisions) ==
  LET hasPendingRetries ==
        \E c \in Range(triagePool) : getDecisionStatus(decisions, c) \in pendingStatuses
      hasVerifiedResult ==
        \E c \in Range(triagePool) : getDecisionStatus(decisions, c) = "verified"
      selected ==
        IF hasPendingRetries
        THEN prioritizeTriageCandidates(triagePool, TRIAGE_MAX_CANDIDATES,
               {c \in Range(triagePool) : getDecisionStatus(decisions, c) \in pendingStatuses})
        ELSE IF ~hasVerifiedResult
        THEN prioritizeTriageCandidates(triagePool, TRIAGE_MAX_CANDIDATES,
               {c \in Range(triagePool) : getDecisionStatus(decisions, c) = "none"})
        ELSE <<>>
  IN IF selected = <<>> /\ decisions = <<>>
     THEN prioritizeTriageCandidates(triagePool, TRIAGE_MAX_CANDIDATES, Range(triagePool))
     ELSE selected

\* the stream handler from the cache lookup to the await of triageAndRank:
\* a version-1 entry restores the results and the decisions and skips the
\* search plans, then the handler selects the candidates to triage
StreamLookup ==
  /\ streamReq.pc \in {"idle", "done"}
  /\ streamServed < MaxStreamRequests
  /\ LET hit == streamEntry.present
         unresolved == {url \in streamEntry.pending :
                          ~isTriageFinalStatus(getDecisionStatus(streamEntry.snapshot, url))}
         triageDecisions == IF hit THEN streamEntry.snapshot ELSE <<>>
         restored == IF hit THEN streamEntry.finalNzbResults ELSE SearchOrder
         finalNzbResults ==
           IF streamPool.dedupeEnabled THEN dedupeResultsByTitle(restored) ELSE restored
         triageTitleMap == buildTriageTitleMap(triageDecisions)
         eligible == Range(eligibleResults(finalNzbResults, triageDecisions))
         toRun == {c \in eligible :
                     ~candidateHasConclusiveDecision(triageDecisions, triageTitleMap, c)}
     IN /\ streamEntry' =
             IF hit /\ ~streamEntry.triageComplete /\ unresolved = {}
             THEN [streamEntry EXCEPT !.triageComplete = TRUE] ELSE streamEntry
        /\ streamReq' =
             [IdleStreamReq EXCEPT
                !.pc = IF toRun # {} THEN "triage" ELSE "respond",
                !.hit = hit,
                !.hitComplete = hit /\ streamEntry.triageComplete,
                !.searched = ~hit,
                !.results = finalNzbResults,
                !.cached = triageDecisions,
                !.triageDecisions = triageDecisions,
                !.eligible = eligible,
                !.toRun = toRun]
  /\ streamServed' = streamServed + 1
  /\ UNCHANGED streamPool

\* triageAndRank(triageCandidatesToRun) resolves: a decision per candidate,
\* timedOut set together with the timeout decision of some candidate,
\* 'pending' left to the candidates a timed out run did not reach
TriageReturns(latest, runTimedOut) ==
  /\ streamReq.pc = "triage"
  /\ DOMAIN latest = streamReq.toRun
  /\ runTimedOut => \E c \in streamReq.toRun : latest[c] = "error"
  /\ ~runTimedOut => \A c \in streamReq.toRun : latest[c] # "pending"
  /\ streamReq' =
       [streamReq EXCEPT
          !.pc = "respond",
          !.ran = streamReq.toRun,
          !.outcome = TRUE,
          !.timedOut = runTimedOut,
          !.triageDecisions =
             MergeDecisions(streamReq.triageDecisions, latest, streamReq.results, 1)]
  /\ UNCHANGED <<streamPool, streamEntry, streamServed>>

\* triageAndRank rejects: the catch logs and triageOutcome stays null
TriageThrows ==
  /\ streamReq.pc = "triage"
  /\ streamReq' = [streamReq EXCEPT !.pc = "respond", !.ran = streamReq.toRun]
  /\ UNCHANGED <<streamPool, streamEntry, streamServed>>

\* the rest of the handler: cacheMeta, setStreamCacheEntry and res.json
StreamRespond ==
  /\ streamReq.pc = "respond"
  /\ LET triageTitleMap == buildTriageTitleMap(streamReq.triageDecisions)
         triagePendingDownloadUrls ==
           {c \in streamReq.eligible :
              ~candidateHasConclusiveDecision(streamReq.triageDecisions, triageTitleMap, c)}
         triageComplete == ~streamReq.timedOut /\ triagePendingDownloadUrls = {}
     IN /\ streamEntry' =
             [present |-> TRUE,
              triageComplete |-> triageComplete,
              pending |-> triagePendingDownloadUrls,
              finalNzbResults |-> streamReq.results,
              snapshot |-> streamReq.triageDecisions]
        /\ streamReq' = [streamReq EXCEPT !.pc = "done", !.rewrote = TRUE,
                                          !.wroteComplete = triageComplete]
  /\ UNCHANGED <<streamPool, streamServed>>

\* the entry's TTL ends, or the entry is evicted, between two requests
StreamEntryDropped ==
  /\ streamEntry.present
  /\ streamReq.pc \in {"idle", "done"}
  /\ streamEntry' = NoStreamEntry
  /\ UNCHANGED <<streamPool, streamReq, streamServed>>

InitStream ==
  /\ streamPool = [title |-> [r \in Releases |-> "tA"], day |-> [r \in Releases |-> 0],
                   dedupeEnabled |-> TRUE]
  /\ streamEntry = NoStreamEntry
  /\ streamReq = IdleStreamReq
  /\ streamServed = 0

(***************************************************************************)
(* The analysis of one NZB: analyzeSingleNzb gathers blockers, warnings    *)
(* and archive findings, and summarizeDecision turns the decision into a   *)
(* status.  An NZB is described by what its inspection meets: whether it   *)
(* has archive candidates, whether an NNTP pool is at hand, the status of  *)
(* the local and of the NNTP inspection of an archive, and the outcomes of *)
(* the sampled STAT checks.  Findings are kept as the set of their status  *)
(* labels.                                                                 *)
(***************************************************************************)
StoredStatuses == {"rar-stored", "sevenzip-stored"}
BlockingStatuses ==
  {"rar-compressed", "rar-encrypted", "rar-solid", "rar5-unsupported",
   "rar-nested-archive", "sevenzip-nested-archive", "sevenzip-unsupported"}
MissingStatuses == {"stat-missing", "body-missing"}
WarningStatuses ==
  {"archive-not-found", "archive-no-segments", "rar-insufficient-data",
   "rar-header-not-found", "sevenzip-insufficient-data", "io-error", "stat-error",
   "body-error", "decode-error", "missing-filename", "sevenzip-untested"}

\* the statuses inspectLocalArchive / inspectArchiveViaNntp return
ArchiveStatuses ==
  StoredStatuses \cup BlockingStatuses \cup MissingStatuses \cup WarningStatuses
    \cup {"rar-corrupt-header"}

\* the findings of statSegment: resolved, STAT_MISSING / 430, another error
StatOutcomes == {"segment-ok", "segment-missing", "segment-error"}

NzbInputs ==
  [archives : BOOLEAN, pool : BOOLEAN, local : ArchiveStatuses \cup {"none"},
   nntp : ArchiveStatuses \cup {"none"}, segmentId : BOOLEAN, stats : SUBSET StatOutcomes]

\* handleArchiveStatus(status, blockers, warnings): its return value and
\* what it adds to the two sets
handleArchiveStatus(status) ==
  [stored |-> status \in StoredStatuses,
   blockers |-> IF status \in BlockingStatuses THEN {status}
                ELSE IF status \in MissingStatuses THEN {"missing-articles"} ELSE {},
   warnings |-> IF status \in WarningStatuses THEN {status} ELSE {}]

\* the catch of a STAT check
StatBlockers(stats) == IF "segment-missing" \in stats THEN {"missing-articles"} ELSE {}
StatWarnings(stats) == IF "segment-error" \in stats THEN {"nntp-stat-error"} ELSE {}

buildDecision(blockers, warnings, archiveFindings) ==
  [decision |-> IF blockers = {} THEN "accept" ELSE "reject",
   blockers |-> blockers, warnings |-> warnings, archiveFindings |-> archiveFindings]

\* buildErrorDecision(err, nzbIndex)
buildErrorDecision ==
  [decision |-> "reject", blockers |-> {"analysis-error"}, warnings |-> {"analysis-failed"},
   archiveFindings |-> {}]

NoPoolWarnings(nzb) == IF nzb.pool THEN {} ELSE {"nntp-disabled"}

\* analyzeSingleNzb(raw, ctx): the decision it returns
AnalyzedDecision(nzb) ==
  IF ~nzb.archives
  THEN LET stats == IF nzb.pool THEN nzb.stats ELSE {}
       IN buildDecision(StatBlockers(stats),
                        {"no-archive-candidates"} \cup NoPoolWarnings(nzb) \cup StatWarnings(stats),
                        stats)
  ELSE LET local == IF nzb.local = "none" THEN [stored |-> FALSE, blockers |-> {}, warnings |-> {}]
                    ELSE handleArchiveStatus(nzb.local)
           localFindings == IF nzb.local = "none" THEN {} ELSE {nzb.local}
           inspected == nzb.pool /\ nzb.nntp # "none"
           nntp == IF inspected THEN handleArchiveStatus(nzb.nntp)
                   ELSE [stored |-> FALSE, blockers |-> {},
                         warnings |-> IF nzb.pool THEN {"archive-no-segments"} ELSE {}]
           nntpFindings ==
             IF inspected
             THEN {nzb.nntp} \cup (IF nzb.segmentId /\ nzb.nntp \in StoredStatuses
                                   THEN {"segment-ok"} ELSE {})
             ELSE {}
           storedArchiveFound == local.stored \/ nntp.stored
           inspectionBlockers == local.blockers \cup nntp.blockers
           stats == IF nzb.pool /\ storedArchiveFound /\ inspectionBlockers = {}
                    THEN nzb.stats ELSE {}
           blockers == inspectionBlockers \cup StatBlockers(stats)
       IN buildDecision(blockers,
                        local.warnings \cup nntp.warnings \cup NoPoolWarnings(nzb)
                          \cup StatWarnings(stats)
                          \cup (IF ~storedArchiveFound /\ blockers = {}
                                THEN {"rar-m0-unverified"} ELSE {}),
                        localFindings \cup nntpFindings \cup stats)

PositiveFindings == {"rar-stored", "sevenzip-stored", "segment-ok"}

\* label.startsWith('sevenzip')
StartsWithSevenzip(label) ==
  label \in {"sevenzip-stored", "sevenzip-nested-archive", "sevenzip-unsupported",
             "sevenzip-insufficient-data", "sevenzip-untested"}

summarizeDecision_AcceptIsVerified(decision) ==
  IF decision.decision = "accept" /\ decision.blockers = {} THEN "verified" ELSE "blocked"

\* summarizeDecision(decision).status
summarizeDecision(decision) ==
  LET status ==
        IF decision.decision = "accept" /\ decision.blockers = {}
        THEN IF decision.archiveFindings \cap PositiveFindings # {}
             THEN "verified" ELSE "unverified"
        ELSE "blocked"
      sevenZipFlag ==
        \/ \E finding \in decision.archiveFindings : StartsWithSevenzip(finding)
        \/ \E warning \in decision.warnings : StartsWithSevenzip(warning)
  IN IF status = "unverified" /\ sevenZipFlag THEN "unverified_7z" ELSE status

NoAnalysis ==
  [pc |-> "idle",
   decision |-> [decision |-> "none", blockers |-> {}, warnings |-> {}, archiveFindings |-> {}]]

\* analyzeWithConcurrency: analyzeSingleNzb returns its decision
analyzeSingleNzb(nzb) ==
  /\ analysis.pc = "idle"
  /\ analysis' = [pc |-> "analyzed", decision |-> AnalyzedDecision(nzb)]
  /\ UNCHANGED summarized

\* analyzeWithConcurrency: analyzeSingleNzb throws
AnalysisThrows ==
  /\ analysis.pc = "idle"
  /\ analysis' = [pc |-> "analyzed", decision |-> buildErrorDecision]
  /\ UNCHANGED summarized

\* the runner summarizes the first decision of the summary
Summarize ==
  /\ analysis.pc = "analyzed"
  /\ analysis' = [analysis EXCEPT !.pc = "summarized"]
  /\ summarized' = summarizeDecision(analysis.decision)

\* the worker takes the next candidate
NextNzb ==
  /\ analysis.pc = "summarized"
  /\ analysis' = NoAnalysis
  /\ summarized' = "none"

InitAnalyzer ==
  /\ analysis = NoAnalysis
  /\ summarized = "none"

(***************************************************************************)
(* The mount history wait.  waitForNzbdavHistorySlot polls the NZBDav      *)
(* history until the job's slot is completed or failed; the deadline is    *)
(* looked at before each poll.  A poll is axiosGetWithRetry with the       *)
(* request timeout NZBDAV_HISTORY_TIMEOUT_MS and one retry.                *)
(***************************************************************************)
WaitHorizon ==
  NZBDAV_POLL_TIMEOUT_MS + 2 * NZBDAV_HISTORY_TIMEOUT_MS + HistoryRetryDelay
    + NZBDAV_POLL_INTERVAL_MS

\* the slot's status as the history shows it; "none": no slot with the nzo_id
SlotStatuses == {"none", "queued", "completed", "failed"}

IdleWait ==
  [pc |-> "idle", deadline |-> 0, due |-> 0, attempt |-> 0, outcome |-> "none", endedAt |-> 0]

\* the top of the while loop: a poll begins, or the timeout error is thrown
LoopTop(deadline, t) ==
  IF t < deadline
  THEN [pc |-> "polling", deadline |-> deadline, due |-> t + NZBDAV_HISTORY_TIMEOUT_MS,
        attempt |-> 0, outcome |-> "none", endedAt |-> 0]
  ELSE [pc |-> "done", deadline |-> deadline, due |-> 0, attempt |-> 0,
        outcome |-> "timeout", endedAt |-> t]

WaitEnds(outcome) ==
  wait' = [wait EXCEPT !.pc = "done", !.due = 0, !.outcome = outcome, !.endedAt = now]

\* waitForNzbdavHistorySlot(nzoId, category) to the await of the first poll
waitForNzbdavHistorySlot ==
  /\ wait.pc = "idle"
  /\ wait' = LoopTop(now + NZBDAV_POLL_TIMEOUT_MS, now)
  /\ UNCHANGED <<now, jobStatus>>

\* the history request resolves with a status below 500: ok is data.status
HistoryReplies(ok) ==
  /\ wait.pc = "polling"
  /\ IF ~ok THEN WaitEnds("query-error")
     ELSE IF jobStatus = "completed" THEN WaitEnds("slot")
     ELSE IF jobStatus = "failed" THEN WaitEnds("failure")
     ELSE wait' = [wait EXCEPT !.pc = "sleeping", !.due = now + NZBDAV_POLL_INTERVAL_MS]
  /\ UNCHANGED <<now, jobStatus>>

\* the history request rejects: a network error or a 5xx at any time, the
\* axios timeout when it is due; the first failure is retried after a delay
HistoryRejects ==
  /\ wait.pc = "polling"
  /\ IF wait.attempt < 1
     THEN wait' = [wait EXCEPT !.pc = "retrying", !.due = now + HistoryRetryDelay]
     ELSE WaitEnds("query-error")
  /\ UNCHANGED <<now, jobStatus>>

\* the retry delay is over: the request is sent again
HistoryRetry ==
  /\ wait.pc = "retrying"
  /\ now = wait.due
  /\ wait' = [wait EXCEPT !.pc = "polling", !.due = now + NZBDAV_HISTORY_TIMEOUT_MS,
                          !.attempt = 1]
  /\ UNCHANGED <<now, jobStatus>>

\* sleep(NZBDAV_POLL_INTERVAL_MS) is over: back to the top of the loop
SleepEnds ==
  /\ wait.pc = "sleeping"
  /\ now = wait.due
  /\ wait' = LoopTop(wait.deadline, now)
  /\ UNCHANGED <<now, jobStatus>>

\* NZBDav moves the job on
JobProgress(status) ==
  /\ wait.pc # "done"
  /\ \/ jobStatus = "none" /\ status \in {"queued", "completed", "failed"}
     \/ jobStatus = "queued" /\ status \in {"completed", "failed"}
  /\ jobStatus' = status
  /\ UNCHANGED <<now, wait>>

\* the clock advances: no timer of the wait is due
WaitTick ==
  /\ wait.pc \in {"polling", "retrying", "sleeping"}
  /\ now < wait.due
  /\ now < WaitHorizon
  /\ now' = now + 1
  /\ UNCHANGED <<wait, jobStatus>>

InitWait ==
  /\ wait = IdleWait
  /\ jobStatus = "none"

(***************************************************************************)
(* Playback responses.  A Range header is its unit and the two digit       *)
(* strings around the dash, as /^bytes=\d*-\d*$/ splits it; a position is  *)
(* parsed from its digits.  streamFileResponse answers from a local file;  *)
(* proxyNzbdavStream forwards the header to the WebDAV server and relays   *)
(* the answer.  The WebDAV server is outside the repository: it answers a  *)
(* byte range as RFC 7233 prescribes, or ignores the header and sends the  *)
(* whole file.                                                             *)
(***************************************************************************)
RangeDigits == {0, 1, 2, 9}

RECURSIVE DigitStrings(_)
DigitStrings(n) ==
  IF n = 0 THEN {<<>>}
  ELSE DigitStrings(n - 1) \cup {Append(s, d) : s \in DigitStrings(n - 1), d \in RangeDigits}

NoRangeHeader == [unit |-> "none", rangeStart |-> <<>>, rangeEnd |-> <<>>]

\* req.headers.range: absent, or <unit>=<digits>-<digits>
RangeHeaders ==
  {NoRangeHeader}
    \cup [unit : {"bytes", "items"}, rangeStart : DigitStrings(MaxDigits),
          rangeEnd : DigitStrings(MaxDigits)]

\* Number.parseInt(digits, 10) of a non-empty string of digits
RECURSIVE parseInt(_)
parseInt(digits) ==
  IF Len(digits) = 0 THEN 0
  ELSE 10 * parseInt(SubSeq(digits, 1, Len(digits) - 1)) + digits[Len(digits)]

NoContentRange == [kind |-> "none", start |-> 0, end |-> 0, size |-> 0]
ContentRange(start, end, size) == [kind |-> "range", start |-> start, end |-> end, size |-> size]
UnsatisfiedRange(size) == [kind |-> "unsatisfied", start |-> 0, end |-> 0, size |-> size]

\* status, Content-Range, Content-Length ("none": not set) and the bytes of the body
Response(status, contentRange, contentLength, body) ==
  [status |-> status, contentRange |-> contentRange, contentLength |-> contentLength,
   body |-> body]

NoResponse == Response(0, NoContentRange, "none", 0)

\* rangeHeader && /^bytes=\d*-\d*$/.test(rangeHeader)
IsByteRange(header) == header.unit = "bytes"

Unsatisfiable_Beyond(start, totalSize) == start > totalSize

\* start >= totalSize
Unsatisfiable(start, totalSize) == start >= totalSize

\* streamFileResponse(req, res, absolutePath, emulateHead, ...): what it sends
FileResponse(method, header, totalSize) ==
  IF method = "HEAD" THEN Response(200, NoContentRange, totalSize, 0)
  ELSE IF ~IsByteRange(header) THEN Response(200, NoContentRange, totalSize, totalSize)
  ELSE LET start == IF header.rangeStart # <<>> THEN parseInt(header.rangeStart) ELSE 0
           asked == IF header.rangeEnd # <<>> THEN parseInt(header.rangeEnd)
                    ELSE totalSize - 1
           end == IF asked >= totalSize \/ asked < start THEN totalSize - 1 ELSE asked
       IN IF Unsatisfiable(start, totalSize)
          THEN Response(416, UnsatisfiedRange(totalSize), "none", 0)
          ELSE Response(206, ContentRange(start, end, totalSize), end - start + 1,
                        end - start + 1)

\* the answer of a server that honours byte ranges (RFC 7233, single range)
RangeHonoured(header, totalSize) ==
  LET first == parseInt(header.rangeStart)
      last == IF header.rangeEnd = <<>> \/ parseInt(header.rangeEnd) >= totalSize
              THEN totalSize - 1 ELSE parseInt(header.rangeEnd)
      suffix == parseInt(header.rangeEnd)
  IN IF ~IsByteRange(header) \/ (header.rangeStart = <<>> /\ header.rangeEnd = <<>>)
       THEN Response(200, NoContentRange, totalSize, totalSize)
     ELSE IF header.rangeStart = <<>>
       THEN IF suffix = 0 \/ totalSize = 0
            THEN Response(416, UnsatisfiedRange(totalSize), "none", 0)
            ELSE LET from == IF suffix >= totalSize THEN 0 ELSE totalSize - suffix
                 IN Response(206, ContentRange(from, totalSize - 1, totalSize),
                             totalSize - from, totalSize - from)
     ELSE IF header.rangeEnd # <<>> /\ parseInt(header.rangeEnd) < first
       THEN Response(200, NoContentRange, totalSize, totalSize)
     ELSE IF first >= totalSize
       THEN Response(416, UnsatisfiedRange(totalSize), "none", 0)
     ELSE Response(206, ContentRange(first, last, totalSize), last - first + 1,
                   last - first + 1)

\* what the WebDAV server may answer to the proxied request
UpstreamReplies(header, totalSize) ==
  {RangeHonoured(header, totalSize), Response(200, NoContentRange, totalSize, totalSize)}

\* headers.Range of the proxied request: HEAD without a range asks for the first byte
ProxiedRange(method, header) ==
  IF method = "HEAD" /\ header = NoRangeHeader
  THEN [unit |-> "bytes", rangeStart |-> <<0>>, rangeEnd |-> <<0>>]
  ELSE header

\* proxyNzbdavStream from the upstream response on: status, headers copied,
\* Content-Length from the Content-Range, no body for HEAD
Relayed(method, reply) ==
  Response(IF reply.contentRange # NoContentRange /\ reply.status = 200 THEN 206
           ELSE reply.status,
           reply.contentRange,
           IF reply.contentRange.kind = "range"
                /\ reply.contentRange.end - reply.contentRange.start + 1 > 0
           THEN reply.contentRange.end - reply.contentRange.start + 1
           ELSE reply.contentLength,
           IF method = "HEAD" THEN 0 ELSE reply.body)

IdlePlayback ==
  [pc |-> "idle", via |-> "none", method |-> "GET", range |-> NoRangeHeader,
   totalSize |-> 0, honoured |-> FALSE, response |-> NoResponse]

\* a playback request served from a local file
streamFileResponse(method, header, totalSize) ==
  /\ playback.pc = "idle"
  /\ playback' = [pc |-> "responded", via |-> "file", method |-> method, range |-> header,
                  totalSize |-> totalSize, honoured |-> TRUE,
                  response |-> FileResponse(method, header, totalSize)]

\* proxyNzbdavStream(req, res, viewPath) to the await of the proxied request
proxyNzbdavStream(method, header, totalSize) ==
  /\ playback.pc = "idle"
  /\ playback' = [IdlePlayback EXCEPT !.pc = "awaiting", !.via = "proxy",
                                      !.method = method, !.range = header,
                                      !.totalSize = totalSize]

\* the WebDAV server answered with a status below 500
UpstreamResponds(reply) ==
  /\ playback.pc = "awaiting"
  /\ reply \in UpstreamReplies(ProxiedRange(playback.method, playback.range),
                               playback.totalSize)
  /\ playback' =
       [playback EXCEPT
          !.pc = "responded",
          !.honoured = (reply = RangeHonoured(ProxiedRange(playback.method, playback.range),
                                              playback.totalSize)),
          !.response = Relayed(playback.method, reply)]

\* the response is sent; the next request
PlaybackEnds ==
  /\ playback.pc = "responded"
  /\ playback' = IdlePlayback

InitRange == playback = IdlePlayback

(***************************************************************************)
(* The walk of a completed mount.  A directory is its path from the job's  *)
(* root, a sequence of names.  The mount has a chain of directories "d"    *)
(* down to TreeDepth and a side directory "b" under the root.  A file name *)
(* is its characters before the extension and the extension.               *)
(***************************************************************************)
NZBDAV_MAX_DIRECTORY_DEPTH == 6

RECURSIVE Chain(_)
Chain(n) == IF n = 0 THEN <<>> ELSE Append(Chain(n - 1), "d")

Directories == {Chain(n) : n \in 0..TreeDepth} \cup {<<"b">>}

\* the directories in which the mount may hold files
FileDirectories == {<<>>, <<"b">>, Chain(NZBDAV_MAX_DIRECTORY_DEPTH), Chain(TreeDepth)}

FileNames ==
  { [stem |-> <<"S", "0", "1", "E", "0", "2">>, ext |-> ".mkv"],
    [stem |-> <<"a", "1", "x", "0", "2">>, ext |-> ".mp4"],
    [stem |-> <<"s", "0", "1", "e", "0", "3">>, ext |-> ".mkv"],
    [stem |-> <<"a">>, ext |-> ".mkv"],
    [stem |-> <<"s", "0", "1", "e", "0", "2">>, ext |-> ".nfo"] }

NoFile == [found |-> FALSE, name |-> [stem |-> <<>>, ext |-> ""], size |-> 0, dir |-> <<>>]

Files == [found : {TRUE}, name : FileNames, size : 1..MaxFileBytes, dir : FileDirectories]

\* requestedEpisode: null for a movie
NoEpisode == [season |-> 0, episode |-> 0]
RequestedEpisodes == {NoEpisode, [season |-> 1, episode |-> 2]}

VIDEO_EXTENSIONS == {".mkv", ".mp4"}

\* isVideoFileName(fileName)
isVideoFileName(name) == name.ext \in VIDEO_EXTENSIONS

\* fileName.toLowerCase(), character by character
toLowerCase(chars) ==
  [i \in 1..Len(chars) |->
     CASE chars[i] = "S" -> "s" [] chars[i] = "E" -> "e" [] chars[i] = "X" -> "x"
       [] OTHER -> chars[i]]

DigitChars == <<"0", "1", "2", "3", "4", "5", "6", "7", "8", "9">>

\* String(n) for n below 100
NumberChars(n) ==
  IF n < 10 THEN <<DigitChars[n + 1]>>
  ELSE <<DigitChars[(n \div 10) + 1], DigitChars[(n % 10) + 1]>>

\* String(n).padStart(2, '0')
padStart2(n) == IF n < 10 THEN <<"0">> \o NumberChars(n) ELSE NumberChars(n)

\* lower.includes(pattern)
includes(chars, pattern) ==
  \E i \in 1..Len(chars) :
    i + Len(pattern) - 1 <= Len(chars) /\ SubSeq(chars, i, i + Len(pattern) - 1) = pattern

\* fileMatchesEpisode(fileName, requestedEpisode)
fileMatchesEpisode(name, requestedEpisode) ==
  IF requestedEpisode = NoEpisode THEN TRUE
  ELSE LET lower == toLowerCase(name.stem)
       IN \/ includes(lower, <<"s">> \o padStart2(requestedEpisode.season) \o <<"e">>
                               \o padStart2(requestedEpisode.episode))
          \/ includes(lower, NumberChars(requestedEpisode.season) \o <<"x">>
                               \o padStart2(requestedEpisode.episode))

FirstSeen(candidate, best) == ~best.found

\* !best || candidate.size > best.size
Larger(candidate, best) == ~best.found \/ candidate.size > best.size

\* the subdirectories a listing of path returns
Subdirectories(path) ==
  (IF path = <<>> THEN <<[path |-> <<"b">>]>> ELSE <<>>)
    \o (IF path = Chain(Len(path)) /\ Len(path) < TreeDepth
        THEN <<[path |-> Append(path, "d")]>> ELSE <<>>)

RECURSIVE FilesIn(_, _, _)
FilesIn(tree, path, n) ==
  IF n = 0 THEN <<>>
  ELSE FilesIn(tree, path, n - 1)
         \o (IF tree[n].found /\ tree[n].dir = path THEN <<tree[n]>> ELSE <<>>)

\* for (const entry of entries): the files of the listing, in its order
RECURSIVE BestAfter(_, _, _, _)
BestAfter(files, requestedEpisode, best, episodeOnly) ==
  IF files = <<>> THEN best
  ELSE LET candidate == Head(files)
           counted == /\ isVideoFileName(candidate.name)
                      /\ (episodeOnly => fileMatchesEpisode(candidate.name, requestedEpisode))
       IN BestAfter(Tail(files), requestedEpisode,
                    IF counted /\ Larger(candidate, best) THEN candidate ELSE best,
                    episodeOnly)

NoItem == [path |-> <<>>, depth |-> 0]

\* while (queue.length > 0): shift until a directory to list, or the queue is empty
RECURSIVE NextListing(_, _)
NextListing(queue, visited) ==
  IF queue = <<>> THEN [found |-> FALSE, item |-> NoItem, queue |-> <<>>]
  ELSE IF Head(queue).depth > NZBDAV_MAX_DIRECTORY_DEPTH \/ Head(queue).path \in visited
    THEN NextListing(Tail(queue), visited)
  ELSE [found |-> TRUE, item |-> Head(queue), queue |-> Tail(queue)]

IdleWalk ==
  [pc |-> "idle", requestedEpisode |-> NoEpisode, queue |-> <<>>, visited |-> {},
   current |-> NoItem, listed |-> <<>>, failures |-> 0, bestMatch |-> NoFile,
   bestEpisodeMatch |-> NoFile, result |-> NoFile]

\* the top of the loop: list the next directory, or return bestEpisodeMatch || bestMatch
WalkOn(w, queue) ==
  LET next == NextListing(queue, w.visited)
  IN IF next.found
     THEN [w EXCEPT !.pc = "listing", !.queue = next.queue, !.current = next.item,
                    !.visited = w.visited \cup {next.item.path}]
     ELSE [w EXCEPT !.pc = "returned", !.queue = <<>>, !.current = NoItem,
                    !.result = IF w.bestEpisodeMatch.found THEN w.bestEpisodeMatch
                               ELSE w.bestMatch]

\* findBestVideoFile({category, jobName, requestedEpisode}) to the first listing
findBestVideoFile(requestedEpisode) ==
  /\ walk.pc = "idle"
  /\ walk' = WalkOn([IdleWalk EXCEPT !.requestedEpisode = requestedEpisode],
                    <<[path |-> <<>>, depth |-> 0]>>)
  /\ UNCHANGED mountTree

\* listWebdavDirectory(currentPath) returned its entries
ListingReturns ==
  /\ walk.pc = "listing"
  /\ LET files == FilesIn(mountTree, walk.current.path, MaxFiles)
         subdirs == Subdirectories(walk.current.path)
         queue == walk.queue
                    \o [i \in 1..Len(subdirs) |->
                          [path |-> subdirs[i].path, depth |-> walk.current.depth + 1]]
     IN walk' = WalkOn([walk EXCEPT
                          !.listed = Append(walk.listed, walk.current),
                          !.bestMatch = BestAfter(files, walk.requestedEpisode,
                                                  walk.bestMatch, FALSE),
                          !.bestEpisodeMatch = BestAfter(files, walk.requestedEpisode,
                                                         walk.bestEpisodeMatch, TRUE)],
                       queue)
  /\ UNCHANGED mountTree

\* listWebdavDirectory(currentPath) threw: the directory is skipped
ListingFails ==
  /\ walk.pc = "listing"
  /\ walk.failures < MaxListFailures
  /\ walk' = WalkOn([walk EXCEPT !.failures = walk.failures + 1], walk.queue)
  /\ UNCHANGED mountTree

\* the caller took the file; the next mount
WalkEnds ==
  /\ walk.pc = "returned"
  /\ walk' = IdleWalk
  /\ UNCHANGED mountTree

InitWalk == mountTree = [n \in 1..MaxFiles |-> NoFile] /\ walk = IdleWalk

(***************************************************************************)
(* The ranker.  A search result is its position in rankPool; a normalized  *)
(* title is the work and the resolution named in it, so two results of one *)
(* title have one resolution and one qualityRank.  The sort mode is        *)
(* quality_then_size.                                                      *)
(***************************************************************************)
RankTitles ==
  { [work |-> "a", resolution |-> "1080p"], [work |-> "b", resolution |-> "1080p"],
    [work |-> "a", resolution |-> "720p"] }

RankedReleases ==
  [title : RankTitles, day : PublishDays, paid : BOOLEAN, size : 1..MaxResultSize]

\* the ranker's options: 0 and {} stand for "not configured"
RankerConfigs ==
  [maxSizeBytes : {0, 1}, allowedResolutions : {{}, {"1080p"}},
   resolutionLimitPerQuality : {0, 1}, dedupeEnabled : BOOLEAN]

\* QUALITY_SCORE_MAP[resolution] || 0, in the order of RESOLUTION_PREFERENCES
qualityRank(release) ==
  CASE release.title.resolution = "1080p" -> 7
    [] release.title.resolution = "720p" -> 6
    [] OTHER -> 0

\* compareQualityThenSize(a, b) < 0: a sorts before b
compareQualityThenSize(a, b) ==
  IF qualityRank(a) # qualityRank(b) THEN qualityRank(a) > qualityRank(b)
  ELSE a.size > b.size

\* filterByAllowedResolutions(results, allowedResolutions)
filterByAllowedResolutions(pool, results, allowedResolutions) ==
  IF allowedResolutions = {} THEN results
  ELSE LET Allowed(result) == pool[result].title.resolution \in allowedResolutions
       IN SelectSeq(results, Allowed)

\* applyMaxSizeFilter(results, maxSizeBytes)
applyMaxSizeFilter(pool, results, maxSizeBytes) ==
  IF maxSizeBytes <= 0 THEN results
  ELSE LET Fits(result) == pool[result].size <= maxSizeBytes
       IN SelectSeq(results, Fits)

\* Array.prototype.sort with compareQualityThenSize: stable, by insertion
RECURSIVE InsertSorted(_, _, _)
InsertSorted(pool, sorted, result) ==
  IF sorted = <<>> THEN <<result>>
  ELSE IF compareQualityThenSize(pool[result], pool[Head(sorted)])
    THEN <<result>> \o sorted
  ELSE <<Head(sorted)>> \o InsertSorted(pool, Tail(sorted), result)

RECURSIVE SortedUpTo(_, _, _)
SortedUpTo(pool, results, n) ==
  IF n = 0 THEN <<>>
  ELSE InsertSorted(pool, SortedUpTo(pool, results, n - 1), results[n])

\* sortAnnotatedResults(results, 'quality_then_size', preferredLanguages)
sortAnnotatedResults(pool, results) == SortedUpTo(pool, results, Len(results))

\* applyResolutionLimits(results, perQualityLimit)
RECURSIVE LimitedUpTo(_, _, _, _)
LimitedUpTo(pool, results, perQualityLimit, n) ==
  IF n = 0 THEN <<>>
  ELSE LET kept == LimitedUpTo(pool, results, perQualityLimit, n - 1)
           current == Cardinality({i \in 1..Len(kept) :
                         pool[kept[i]].title.resolution = pool[results[n]].title.resolution})
       IN IF current >= perQualityLimit THEN kept ELSE Append(kept, results[n])

applyResolutionLimits(pool, results, perQualityLimit) ==
  IF perQualityLimit <= 0 THEN results
  ELSE LimitedUpTo(pool, results, perQualityLimit, Len(results))

\* prepareSortedResults(results, options)
prepareSortedResults(pool, results, options) ==
  applyResolutionLimits(pool,
    sortAnnotatedResults(pool,
      applyMaxSizeFilter(pool,
        filterByAllowedResolutions(pool, results, options.allowedResolutions),
        options.maxSizeBytes)),
    options.resolutionLimitPerQuality)

\* the candidate takes the place of the matched entry: a paid candidate over a free
\* entry, and the newer one of two that are both paid or both free
Replaces(candidate, existing) ==
  \/ candidate.paid /\ ~existing.paid
  \/ candidate.paid = existing.paid /\ candidate.day > existing.day

\* dedupeResultsByTitle(results) with paid and free indexers: the bucket of a title is
\* searched in the order of its entries, which is the order of their listIndex
RECURSIVE RankDedupedUpTo(_, _, _)
RankDedupedUpTo(pool, results, n) ==
  IF n = 0 THEN <<>>
  ELSE LET deduped == RankDedupedUpTo(pool, results, n - 1)
           result == results[n]
           bucket == {i \in 1..Len(deduped) :
                        /\ pool[deduped[i]].title = pool[result].title
                        /\ areReleasesWithinDays(pool[deduped[i]].day, pool[result].day,
                                                 DEDUPE_MAX_PUBLISH_DIFF_DAYS)}
       IN IF bucket = {} THEN Append(deduped, result)
          ELSE LET matched == CHOOSE i \in bucket : \A j \in bucket : i <= j
               IN IF Replaces(pool[result], pool[deduped[matched]])
                  THEN [deduped EXCEPT ![matched] = result]
                  ELSE deduped

dedupeRankedByTitle(pool, results) == RankDedupedUpTo(pool, results, Len(results))

\* streamHandler: prepareSortedResults, then dedupeResultsByTitle if enabled
RankerPipeline(pool, results, options) ==
  LET prepared == prepareSortedResults(pool, results, options)
  IN IF options.dedupeEnabled THEN dedupeRankedByTitle(pool, prepared) ELSE prepared

AllResults == [i \in 1..MaxResults |-> i]

IdleRanker ==
  [pc |-> "idle", options |-> CHOOSE c \in RankerConfigs : TRUE, prepared |-> <<>>,
   final |-> <<>>, again |-> <<>>]

\* the ranker call of the stream handler on the request's results
RankResults(options) ==
  /\ ranker.pc = "idle"
  /\ ranker' = [ranker EXCEPT
                  !.pc = "ranked",
                  !.options = options,
                  !.prepared = prepareSortedResults(rankPool, AllResults, options),
                  !.final = RankerPipeline(rankPool, AllResults, options)]
  /\ UNCHANGED rankPool

\* the pipeline applied to its own output, with the same options
RankAgain ==
  /\ ranker.pc = "ranked"
  /\ ranker' = [ranker EXCEPT
                  !.pc = "reranked",
                  !.again = RankerPipeline(rankPool, ranker.final, ranker.options)]
  /\ UNCHANGED rankPool

\* the request ends
RankerEnds ==
  /\ ranker.pc \in {"ranked", "reranked"}
  /\ ranker' = IdleRanker
  /\ UNCHANGED rankPool

InitRanker ==
  /\ rankPool = [i \in 1..MaxResults |-> CHOOSE r \in RankedReleases : TRUE]
  /\ ranker = IdleRanker

(***************************************************************************)
(* The specifications: one per subsystem, the others parked.               *)
(***************************************************************************)
\* every subsystem parked in its state after construction
ParkedMount == InitMount /\ NZBDAV_CACHE_TTL_MS = MountTtl
ParkedCache == InitCache /\ STREAM_CACHE_TTL_MS = CacheTtl /\ VERIFIED_NZB_CACHE_TTL_MS = CacheTtl
ParkedPool == InitPool
ParkedTriage == InitTriage
ParkedDecisions == InitDecisions
ParkedShared == InitShared
ParkedBreaker == InitBreaker
ParkedSearch == InitSearch
ParkedAuth == InitAuth
ParkedStream == InitStream
ParkedAnalyzer == InitAnalyzer
ParkedWait == InitWait
ParkedRange == InitRange
ParkedWalk == InitWalk
ParkedRanker == InitRanker

otherThanPool == <<now, focus, lastLookup, mountVars, cacheVars, triageVars, decisionVars,
                   sharedVars, breakerVars, searchVars, authVars, streamVars, analyzerVars, waitVars,
          rangeVars, walkVars, rankerVars>>

InitPoolSpec ==
  now = 1 /\ focus = "pool" /\ ParkedMount /\ ParkedCache /\ InitPool /\ ParkedTriage
  /\ ParkedDecisions /\ ParkedShared /\ ParkedBreaker /\ ParkedSearch /\ ParkedAuth /\ ParkedStream /\ ParkedAnalyzer /\ ParkedWait /\ ParkedRange /\ ParkedWalk /\ ParkedRanker

NextPool ==
  \/ \E p \in Callers : acquireClient(p) /\ UNCHANGED otherThanPool
  \/ \E p \in Callers, drop \in BOOLEAN : releaseClient(p, drop) /\ UNCHANGED otherThanPool
  \/ \E p \in Callers : CallerRetry(p) /\ UNCHANGED otherThanPool
  \/ CloseSettled /\ UNCHANGED otherThanPool
  \/ ConnectFulfilled /\ UNCHANGED otherThanPool
  \/ ConnectRejected /\ UNCHANGED otherThanPool
  \/ RetryTimerFires /\ UNCHANGED otherThanPool
  \/ \E c \in Clients : NoopTimerFires(c) /\ UNCHANGED otherThanPool
  \/ \E c \in Clients : ProbeResolved(c) /\ UNCHANGED otherThanPool
  \/ \E c \in Clients : ProbeRejected(c) /\ UNCHANGED otherThanPool
  \/ KeepAliveInterval /\ UNCHANGED otherThanPool
  \/ PoolClose /\ UNCHANGED otherThanPool
  \/ markTriageActivity /\ UNCHANGED otherThanPool
  \/ ActivityLapses /\ UNCHANGED otherThanPool
  \/ PoolIdles /\ UNCHANGED otherThanPool

SpecPool == InitPoolSpec /\ [][NextPool]_vars

(***************************************************************************)
(* The pool's acquire, release, replacement and close with their progress  *)
(* assumptions: a holder's handler ends and releases the client,           *)
(* closeNntpClient settles, the retry timer fires, and a connect that is   *)
(* attempted again and again succeeds.  The pool has from one client       *)
(* (nntpMaxConnections ?? 1) to NumClients; the per-client keep-alive      *)
(* probes, which take a client out as a drop does, are left to SpecPool.   *)
(***************************************************************************)
InitPoolLiveSpec ==
  now = 1 /\ focus = "pool" /\ ParkedMount /\ ParkedCache /\ ParkedTriage
  /\ ParkedDecisions /\ ParkedShared /\ ParkedBreaker /\ ParkedSearch /\ ParkedAuth
  /\ ParkedStream /\ ParkedAnalyzer /\ ParkedWait /\ ParkedRange /\ ParkedWalk /\ ParkedRanker
  /\ \E connectionCount \in 1..NumClients :
       /\ idle = [i \in 1..connectionCount |-> i]
       /\ allClients = 1..connectionCount
       /\ nextClientId = connectionCount + 1
  /\ waiters = <<>> /\ arrivals = <<>> /\ dropped = {} /\ closing = FALSE
  /\ noopTimers = {} /\ probing = {} /\ closingClients = 0 /\ connecting = 0
  /\ retryTimers = 0 /\ activityFresh = TRUE /\ idleLong = FALSE
  /\ callers = [p \in Callers |-> IdleCaller]

NextPoolLive ==
  \/ \E p \in Callers : acquireClient(p) /\ UNCHANGED otherThanPool
  \/ \E p \in Callers, drop \in BOOLEAN : releaseClient(p, drop) /\ UNCHANGED otherThanPool
  \/ \E p \in Callers : CallerRetry(p) /\ UNCHANGED otherThanPool
  \/ CloseSettled /\ UNCHANGED otherThanPool
  \/ ConnectFulfilled /\ UNCHANGED otherThanPool
  \/ ConnectRejected /\ UNCHANGED otherThanPool
  \/ RetryTimerFires /\ UNCHANGED otherThanPool
  \/ KeepAliveInterval /\ UNCHANGED otherThanPool
  \/ PoolClose /\ UNCHANGED otherThanPool
  \/ PoolIdles /\ UNCHANGED otherThanPool

PoolFairness ==
  /\ \A p \in Callers :
       WF_vars((\E drop \in BOOLEAN : releaseClient(p, drop)) /\ UNCHANGED otherThanPool)
  /\ WF_vars(CloseSettled /\ UNCHANGED otherThanPool)
  /\ WF_vars(RetryTimerFires /\ UNCHANGED otherThanPool)
  /\ SF_vars(ConnectFulfilled /\ UNCHANGED otherThanPool)

SpecPoolLive == InitPoolLiveSpec /\ [][NextPoolLive]_vars /\ PoolFairness

otherThanTriage == <<focus, lastLookup, mountVars, cacheVars, poolVars, decisionVars, sharedVars, breakerVars, searchVars,
          authVars,
          streamVars,
          analyzerVars,
          waitVars,
          rangeVars,
          walkVars,
          rankerVars>>

InitTriageSpec ==
  now = 1 /\ focus = "triage" /\ ParkedMount /\ ParkedCache /\ ParkedPool /\ InitTriage
  /\ ParkedDecisions /\ ParkedShared /\ ParkedBreaker /\ ParkedSearch /\ ParkedAuth /\ ParkedStream /\ ParkedAnalyzer /\ ParkedWait /\ ParkedRange /\ ParkedWalk /\ ParkedRanker

NextTriage ==
  \/ \E n \in 0..MaxCandidates : \E ix \in IndexerChoices(n) :
        triageAndRank(n, ix) /\ UNCHANGED otherThanTriage
  \/ \E w \in Workers, ok \in BOOLEAN : DownloadSettled(w, ok) /\ UNCHANGED otherThanTriage
  \/ \E w \in Workers, st \in AnalysisOutcomes : AnalysisSettled(w, st) /\ UNCHANGED otherThanTriage
  \/ \E w \in Workers : AnalysisTimedOut(w) /\ UNCHANGED otherThanTriage
  \/ \E c \in Candidates : AbandonedSettles(c) /\ UNCHANGED otherThanTriage
  \/ RunnerReturns /\ UNCHANGED otherThanTriage
  \/ TriageTick /\ UNCHANGED otherThanTriage

SpecTriage == InitTriageSpec /\ [][NextTriage]_vars

otherThanDecisions == <<now, focus, lastLookup, mountVars, cacheVars, poolVars, triageVars, sharedVars, breakerVars, searchVars,
          authVars,
          streamVars,
          analyzerVars,
          waitVars,
          rangeVars,
          walkVars,
          rankerVars>>

InitDecisionSpec ==
  now = 1 /\ focus = "decisions" /\ ParkedMount /\ ParkedCache /\ ParkedPool /\ ParkedTriage
  /\ InitDecisions /\ ParkedShared /\ ParkedBreaker /\ ParkedSearch /\ ParkedAuth /\ ParkedStream /\ ParkedAnalyzer /\ ParkedWait /\ ParkedRange /\ ParkedWalk /\ ParkedRanker

NextDecision ==
  \/ \E h \in Handlers : StreamRequest(h) /\ UNCHANGED otherThanDecisions
  \/ \E h \in Handlers, latest \in [Urls -> TriageStatuses] :
        TriageOutcome(h, latest) /\ UNCHANGED otherThanDecisions
  \/ \E h \in Handlers : CacheWrite(h) /\ UNCHANGED otherThanDecisions
  \/ EntryDropped /\ UNCHANGED otherThanDecisions

SpecDecision == InitDecisionSpec /\ [][NextDecision]_vars

beyondCaches == <<poolVars, triageVars, decisionVars, sharedVars, breakerVars, searchVars, authVars,
          streamVars, analyzerVars, waitVars, rangeVars, walkVars, rankerVars>>

otherThanMount == <<focus, cacheVars, poolVars, triageVars, decisionVars, sharedVars, breakerVars, searchVars,
          authVars, streamVars, analyzerVars, waitVars, rangeVars, walkVars, rankerVars>>

InitMountSpec ==
  now = 1 /\ focus = "mount" /\ InitMount /\ ParkedCache /\ ParkedPool /\ ParkedTriage
  /\ ParkedDecisions /\ ParkedShared /\ ParkedBreaker /\ ParkedSearch /\ ParkedAuth /\ ParkedStream /\ ParkedAnalyzer /\ ParkedWait /\ ParkedRange /\ ParkedWalk /\ ParkedRanker

NextMount ==
  \/ \E r \in Reqs, k \in Keys : getOrCreateNzbdavStream(r, k) /\ UNCHANGED otherThanMount
  \/ \E b \in BuildIds : BuilderResolve(b) /\ UNCHANGED otherThanMount
  \/ \E b \in BuildIds, f \in BOOLEAN : BuilderReject(b, f) /\ UNCHANGED otherThanMount
  \/ \E r \in Reqs : RequestDone(r) /\ UNCHANGED otherThanMount
  \/ \E ttl \in MountTtlChoices : MountConfigSave(ttl) /\ UNCHANGED otherThanMount
  \/ MountTick /\ UNCHANGED otherThanMount

SpecMount == InitMountSpec /\ [][NextMount]_vars

(***************************************************************************)
(* The cache tier.  The three caches share no state (each module owns its  *)
(* map and counters; only clearAllCaches touches all of them), so a run    *)
(* exercises the cache `focus` names, with one playback client for the     *)
(* mount-handle cache.                                                     *)
(***************************************************************************)
InitCacheSpec ==
  /\ now = 1 /\ focus \in {"stream", "verified", "mount"} /\ InitCache /\ InitMount
  /\ ParkedPool /\ ParkedTriage /\ ParkedDecisions /\ ParkedShared /\ ParkedBreaker /\ ParkedSearch /\ ParkedAuth /\ ParkedStream /\ ParkedAnalyzer /\ ParkedWait /\ ParkedRange /\ ParkedWalk /\ ParkedRanker

NextCache ==
  \/ /\ focus = "stream"
     /\ \E k \in CacheKeys, size \in EntrySizes : setStreamCacheEntry(k, size)
     /\ UNCHANGED <<focus, mountVars, beyondCaches>>
  \/ /\ focus = "stream"
     /\ \E k \in CacheKeys : getStreamCacheEntry(k)
     /\ UNCHANGED <<focus, mountVars, beyondCaches>>
  \/ /\ focus = "verified"
     /\ \E k \in CacheKeys, size \in EntrySizes : cacheVerifiedNzbPayload(k, size)
     /\ UNCHANGED <<focus, mountVars, beyondCaches>>
  \/ /\ focus = "verified"
     /\ \E k \in CacheKeys : getVerifiedNzbCacheEntry(k)
     /\ UNCHANGED <<focus, mountVars, beyondCaches>>
  \/ /\ focus = "mount"
     /\ \E k \in Keys : getOrCreateNzbdavStream(1, k)
     /\ UNCHANGED <<focus, cacheVars, beyondCaches>>
  \/ /\ focus = "mount"
     /\ \E b \in BuildIds : BuilderResolve(b)
     /\ UNCHANGED <<focus, cacheVars, beyondCaches>>
  \/ /\ focus = "mount"
     /\ \E b \in BuildIds, f \in BOOLEAN : BuilderReject(b, f)
     /\ UNCHANGED <<focus, cacheVars, beyondCaches>>
  \/ /\ focus = "mount"
     /\ RequestDone(1)
     /\ UNCHANGED <<focus, cacheVars, beyondCaches>>
  \/ /\ focus # "mount"
     /\ clearAllCaches
     /\ UNCHANGED <<focus, beyondCaches>>
  \/ /\ focus = "mount"
     /\ \E ttl \in MountTtlChoices : AdminConfigSave(ttl)
     /\ UNCHANGED <<focus, beyondCaches>>
  \/ CacheTick /\ UNCHANGED <<focus, beyondCaches>>

SpecCache == InitCacheSpec /\ [][NextCache]_vars

otherThanShared == <<now, focus, lastLookup, mountVars, cacheVars, poolVars, triageVars,
                     decisionVars, breakerVars, searchVars, authVars, streamVars, analyzerVars, waitVars,
          rangeVars, walkVars, rankerVars>>

InitSharedSpec ==
  now = 1 /\ focus = "shared" /\ ParkedMount /\ ParkedCache /\ ParkedPool /\ ParkedTriage
  /\ ParkedDecisions /\ InitShared /\ ParkedBreaker /\ ParkedSearch /\ ParkedAuth /\ ParkedStream /\ ParkedAnalyzer /\ ParkedWait /\ ParkedRange /\ ParkedWalk /\ ParkedRanker

NextShared ==
  \/ \E c \in PoolCalls, key \in PoolKeys : preWarmNntpPool(c, key) /\ UNCHANGED otherThanShared
  \/ \E c \in PoolCalls, key \in PoolKeys : triageNzbs(c, key) /\ UNCHANGED otherThanShared
  \/ \E c \in PoolCalls : CloseSharedSettled(c) /\ UNCHANGED otherThanShared
  \/ \E b \in PoolBuildIds : CreatePoolFulfilled(b) /\ UNCHANGED otherThanShared
  \/ \E b \in PoolBuildIds : PrewarmOldClosed(b) /\ UNCHANGED otherThanShared
  \/ \E b \in PoolBuildIds : CreatePoolRejected(b) /\ UNCHANGED otherThanShared
  \/ \E c \in PoolCalls : TriageChecked(c) /\ UNCHANGED otherThanShared
  \/ SharedPoolIdles /\ UNCHANGED otherThanShared
  \/ evictStaleSharedNntpPool /\ UNCHANGED otherThanShared
  \/ EvictionSettled /\ UNCHANGED otherThanShared

SpecShared == InitSharedSpec /\ [][NextShared]_vars

otherThanBreaker == <<focus, lastLookup, mountVars, cacheVars, poolVars, triageVars,
                      decisionVars, sharedVars, searchVars, authVars, streamVars, analyzerVars, waitVars,
          rangeVars, walkVars, rankerVars>>

InitBreakerSpec ==
  now = 1 /\ focus = "breaker" /\ ParkedMount /\ ParkedCache /\ ParkedPool /\ ParkedTriage
  /\ ParkedDecisions /\ ParkedShared /\ InitBreaker /\ ParkedSearch /\ ParkedAuth /\ ParkedStream /\ ParkedAnalyzer /\ ParkedWait /\ ParkedRange /\ ParkedWalk /\ ParkedRanker

NextBreaker ==
  \/ \E c \in ManagerCalls : executeManagerPlanWithBackoff(c) /\ UNCHANGED <<now, otherThanBreaker>>
  \/ \E c \in ManagerCalls : ManagerSearchFulfilled(c) /\ UNCHANGED <<now, otherThanBreaker>>
  \/ \E c \in ManagerCalls : ManagerSearchRejected(c) /\ UNCHANGED <<now, otherThanBreaker>>
  \/ \E manager \in Managers, enabled \in BOOLEAN, seconds \in BackoffSeconds :
        rebuildRuntimeConfig(manager, enabled, seconds) /\ UNCHANGED <<now, otherThanBreaker>>
  \/ BreakerTick /\ UNCHANGED otherThanBreaker

SpecBreaker == InitBreakerSpec /\ [][NextBreaker]_vars

otherThanSearch == <<now, focus, lastLookup, mountVars, cacheVars, poolVars, triageVars,
                     decisionVars, sharedVars, breakerVars, authVars, streamVars, analyzerVars, waitVars,
          rangeVars, walkVars, rankerVars>>

InitSearchSpec ==
  now = 1 /\ focus = "search" /\ ParkedMount /\ ParkedCache /\ ParkedPool /\ ParkedTriage
  /\ ParkedDecisions /\ ParkedShared /\ ParkedBreaker /\ InitSearch /\ ParkedAuth /\ ParkedStream /\ ParkedAnalyzer /\ ParkedWait /\ ParkedRange /\ ParkedWalk /\ ParkedRanker

NextSearch ==
  \/ \E eligible \in SUBSET NewznabConfigs :
        searchNewznabIndexers(eligible) /\ UNCHANGED otherThanSearch
  \/ executeProwlarrSearch /\ UNCHANGED otherThanSearch
  \/ \E t \in Tasks, reply \in Replies : \E jitter \in JitterChoices(tasks[t].attempt) :
        ReplyArrives(t, reply, jitter) /\ UNCHANGED otherThanSearch
  \/ \E t \in Tasks : RetryDelayElapsed(t) /\ UNCHANGED otherThanSearch
  \/ NewznabSettled /\ UNCHANGED otherThanSearch

SpecSearch == InitSearchSpec /\ [][NextSearch]_vars

otherThanAuth == <<now, focus, lastLookup, mountVars, cacheVars, poolVars, triageVars,
                   decisionVars, sharedVars, breakerVars, searchVars, streamVars, analyzerVars, waitVars,
          rangeVars, walkVars, rankerVars>>

InitAuthSpec ==
  now = 1 /\ focus = "auth" /\ ParkedMount /\ ParkedCache /\ ParkedPool /\ ParkedTriage
  /\ ParkedDecisions /\ ParkedShared /\ ParkedBreaker /\ ParkedSearch
  /\ sharedSecret \in {"", Secret} /\ authReq = NoRequest /\ authStage = "idle"
  /\ authStatus = 0 /\ invoked = "none" /\ ParkedStream /\ ParkedAnalyzer /\ ParkedWait /\ ParkedRange /\ ParkedWalk /\ ParkedRanker

NextAuth ==
  \/ /\ authStage = "idle"
     /\ \E req \in Requests : Receive(req)
     /\ UNCHANGED otherThanAuth
  \/ CorsMiddleware /\ UNCHANGED otherThanAuth
  \/ AdminApiMount /\ UNCHANGED otherThanAuth
  \/ AdminStaticMount /\ UNCHANGED otherThanAuth
  \/ TokenAdminMount /\ UNCHANGED otherThanAuth
  \/ OpenRoutes /\ UNCHANGED otherThanAuth
  \/ SecretGate /\ UNCHANGED otherThanAuth
  \/ Routes /\ UNCHANGED otherThanAuth
  \/ RequestEnds /\ UNCHANGED otherThanAuth

SpecAuth == InitAuthSpec /\ [][NextAuth]_vars

(***************************************************************************)
(* The stream handler: requests for one key, one after the other.          *)
(***************************************************************************)
otherThanStream == <<now, focus, lastLookup, mountVars, cacheVars, poolVars, triageVars,
                     decisionVars, sharedVars, breakerVars, searchVars, authVars, analyzerVars, waitVars,
          rangeVars, walkVars, rankerVars>>

InitStreamSpec ==
  now = 1 /\ focus = "handler" /\ ParkedMount /\ ParkedCache /\ ParkedPool /\ ParkedTriage
  /\ ParkedDecisions /\ ParkedShared /\ ParkedBreaker /\ ParkedSearch /\ ParkedAuth
  /\ streamPool \in [title : [Releases -> Titles], day : [Releases -> PublishDays],
                     dedupeEnabled : BOOLEAN]
  /\ streamEntry = NoStreamEntry /\ streamReq = IdleStreamReq /\ streamServed = 0 /\ ParkedAnalyzer /\ ParkedWait /\ ParkedRange /\ ParkedWalk /\ ParkedRanker

NextStream ==
  \/ StreamLookup /\ UNCHANGED otherThanStream
  \/ /\ streamReq.pc = "triage"
     /\ \E runTimedOut \in BOOLEAN : \E latest \in [streamReq.toRun -> RunnerStatuses] :
          TriageReturns(latest, runTimedOut)
     /\ UNCHANGED otherThanStream
  \/ TriageThrows /\ UNCHANGED otherThanStream
  \/ StreamRespond /\ UNCHANGED otherThanStream
  \/ StreamEntryDropped /\ UNCHANGED otherThanStream

SpecStream == InitStreamSpec /\ [][NextStream]_vars

(***************************************************************************)
(* The analysis and the summary of NZBs, one after the other.              *)
(***************************************************************************)
otherThanAnalyzer == <<now, focus, lastLookup, mountVars, cacheVars, poolVars, triageVars,
                       decisionVars, sharedVars, breakerVars, searchVars, authVars,
                       streamVars, waitVars, rangeVars, walkVars, rankerVars>>

InitAnalyzerSpec ==
  now = 1 /\ focus = "analyzer" /\ ParkedMount /\ ParkedCache /\ ParkedPool /\ ParkedTriage
  /\ ParkedDecisions /\ ParkedShared /\ ParkedBreaker /\ ParkedSearch /\ ParkedAuth
  /\ ParkedStream /\ InitAnalyzer /\ ParkedWait /\ ParkedRange /\ ParkedWalk /\ ParkedRanker

NextAnalyzer ==
  \/ /\ analysis.pc = "idle"
     /\ \E nzb \in NzbInputs : analyzeSingleNzb(nzb)
     /\ UNCHANGED otherThanAnalyzer
  \/ AnalysisThrows /\ UNCHANGED otherThanAnalyzer
  \/ Summarize /\ UNCHANGED otherThanAnalyzer
  \/ NextNzb /\ UNCHANGED otherThanAnalyzer

SpecAnalyzer == InitAnalyzerSpec /\ [][NextAnalyzer]_vars

(***************************************************************************)
(* One mount history wait, from its call to its end.                       *)
(***************************************************************************)
otherThanWait == <<focus, lastLookup, mountVars, cacheVars, poolVars, triageVars,
                   decisionVars, sharedVars, breakerVars, searchVars, authVars,
                   streamVars, analyzerVars, rangeVars, walkVars, rankerVars>>

InitWaitSpec ==
  now = 0 /\ focus = "wait" /\ ParkedMount /\ ParkedCache /\ ParkedPool /\ ParkedTriage
  /\ ParkedDecisions /\ ParkedShared /\ ParkedBreaker /\ ParkedSearch /\ ParkedAuth
  /\ ParkedStream /\ ParkedAnalyzer /\ InitWait /\ ParkedRange /\ ParkedWalk /\ ParkedRanker

NextWait ==
  \/ waitForNzbdavHistorySlot /\ UNCHANGED otherThanWait
  \/ \E ok \in BOOLEAN : HistoryReplies(ok) /\ UNCHANGED otherThanWait
  \/ HistoryRejects /\ UNCHANGED otherThanWait
  \/ HistoryRetry /\ UNCHANGED otherThanWait
  \/ SleepEnds /\ UNCHANGED otherThanWait
  \/ \E status \in SlotStatuses : JobProgress(status) /\ UNCHANGED otherThanWait
  \/ WaitTick /\ UNCHANGED otherThanWait

SpecWait == InitWaitSpec /\ [][NextWait]_vars

(***************************************************************************)
(* Playback requests with and without a Range header, one after the other. *)
(***************************************************************************)
otherThanRange == <<now, focus, lastLookup, mountVars, cacheVars, poolVars, triageVars,
                    decisionVars, sharedVars, breakerVars, searchVars, authVars,
                    streamVars, analyzerVars, waitVars, walkVars, rankerVars>>

InitRangeSpec ==
  now = 1 /\ focus = "playback" /\ ParkedMount /\ ParkedCache /\ ParkedPool /\ ParkedTriage
  /\ ParkedDecisions /\ ParkedShared /\ ParkedBreaker /\ ParkedSearch /\ ParkedAuth
  /\ ParkedStream /\ ParkedAnalyzer /\ ParkedWait /\ InitRange /\ ParkedWalk /\ ParkedRanker

NextRange ==
  \/ /\ playback.pc = "idle"
     /\ \E method \in {"GET", "HEAD"}, header \in RangeHeaders, totalSize \in 0..MaxFileSize :
          streamFileResponse(method, header, totalSize)
     /\ UNCHANGED otherThanRange
  \/ /\ playback.pc = "idle"
     /\ \E method \in {"GET", "HEAD"}, header \in RangeHeaders, totalSize \in 0..MaxFileSize :
          proxyNzbdavStream(method, header, totalSize)
     /\ UNCHANGED otherThanRange
  \/ /\ playback.pc = "awaiting"
     /\ \E reply \in UpstreamReplies(ProxiedRange(playback.method, playback.range),
                                     playback.totalSize) : UpstreamResponds(reply)
     /\ UNCHANGED otherThanRange
  \/ PlaybackEnds /\ UNCHANGED otherThanRange

SpecRange == InitRangeSpec /\ [][NextRange]_vars

(***************************************************************************)
(* Walks of one completed mount, for a movie and for an episode.           *)
(***************************************************************************)
otherThanWalk == <<now, focus, lastLookup, mountVars, cacheVars, poolVars, triageVars,
                   decisionVars, sharedVars, breakerVars, searchVars, authVars,
                   streamVars, analyzerVars, waitVars, rangeVars, rankerVars>>

InitWalkSpec ==
  now = 1 /\ focus = "walk" /\ ParkedMount /\ ParkedCache /\ ParkedPool /\ ParkedTriage
  /\ ParkedDecisions /\ ParkedShared /\ ParkedBreaker /\ ParkedSearch /\ ParkedAuth
  /\ ParkedStream /\ ParkedAnalyzer /\ ParkedWait /\ ParkedRange
  /\ mountTree \in [1..MaxFiles -> Files \cup {NoFile}] /\ walk = IdleWalk /\ ParkedRanker

NextWalk ==
  \/ /\ walk.pc = "idle"
     /\ \E requestedEpisode \in RequestedEpisodes : findBestVideoFile(requestedEpisode)
     /\ UNCHANGED otherThanWalk
  \/ ListingReturns /\ UNCHANGED otherThanWalk
  \/ ListingFails /\ UNCHANGED otherThanWalk
  \/ WalkEnds /\ UNCHANGED otherThanWalk

SpecWalk == InitWalkSpec /\ [][NextWalk]_vars

(***************************************************************************)
(* The ranker on the results of one request, once and a second time.       *)
(***************************************************************************)
otherThanRanker == <<now, focus, lastLookup, mountVars, cacheVars, poolVars, triageVars,
                     decisionVars, sharedVars, breakerVars, searchVars, authVars,
                     streamVars, analyzerVars, waitVars, rangeVars, walkVars>>

InitRankerSpec ==
  now = 1 /\ focus = "ranker" /\ ParkedMount /\ ParkedCache /\ ParkedPool /\ ParkedTriage
  /\ ParkedDecisions /\ ParkedShared /\ ParkedBreaker /\ ParkedSearch /\ ParkedAuth
  /\ ParkedStream /\ ParkedAnalyzer /\ ParkedWait /\ ParkedRange /\ ParkedWalk
  /\ rankPool \in [1..MaxResults -> RankedReleases] /\ ranker = IdleRanker

NextRanker ==
  \/ /\ ranker.pc = "idle"
     /\ \E options \in RankerConfigs : RankResults(options)
     /\ UNCHANGED otherThanRanker
  \/ RankAgain /\ UNCHANGED otherThanRanker
  \/ RankerEnds /\ UNCHANGED otherThanRanker

SpecRanker == InitRankerSpec /\ [][NextRanker]_vars

(***************************************************************************)
(* C1: single-flight.  K concurrent mount requests for one key invoke the  *)
(* builder once: a request that finds the entry pending joins the build    *)
(* that entry holds, and among the builds started since the last flush at  *)
(* most one per key is running.                                            *)
(***************************************************************************)
RunningBuilds(k, e) ==
  {b \in BuildIds : builds[b].state = "running" /\ builds[b].key = k /\ builds[b].epoch = e}

SingleFlight ==
  /\ \A r \in Reqs :
       (requests[r].pc = "awaiting" /\ requests[r].via = "join") =>
          /\ builds[requests[r].promise].state = "running"
          /\ builds[requests[r].promise].key = requests[r].key
  /\ \A k \in Keys : Cardinality(RunningBuilds(k, flushEpoch)) <= 1

(***************************************************************************)
(* C8: cache FIFO.  In the response cache and in the verified-NZB cache,   *)
(* the entries an insertion evicts for the limits are the oldest by        *)
(* (latest) insertion, oldest first, and the entry just inserted is not    *)
(* the first one evicted (one that alone exceeds the cap is not stored).   *)
(***************************************************************************)
IsPrefix(p, q) == Len(p) <= Len(q) /\ \A i \in 1..Len(p) : p[i] = q[i]

CacheFifo ==
  lastSet.stored =>
     /\ IsPrefix(lastSet.evicted, lastSet.order)
     /\ lastSet.evicted # <<>> => lastSet.evicted[1] # lastSet.key

(***************************************************************************)
(* C9: in the response cache and the verified-NZB cache the bytes held     *)
(* never exceed the configured cap by more than one entry.                 *)
(***************************************************************************)
MaxSizeIn(map) == IF map = <<>> THEN 0
                  ELSE CHOOSE m \in {map[i].size : i \in 1..Len(map)} :
                         \A i \in 1..Len(map) : map[i].size <= m

CacheBytesBounded ==
  /\ streamCacheBytes <= STREAM_CACHE_MAX_BYTES + MaxSizeIn(streamResponseCache)
  /\ SumSizes(streamResponseCache) <= STREAM_CACHE_MAX_BYTES + MaxSizeIn(streamResponseCache)
  /\ verifiedNzbCacheBytes <= VERIFIED_NZB_CACHE_MAX_BYTES + MaxSizeIn(verifiedNzbCacheByUrl)
  /\ SumSizes(verifiedNzbCacheByUrl) <= VERIFIED_NZB_CACHE_MAX_BYTES + MaxSizeIn(verifiedNzbCacheByUrl)

\* an insertion that overflowed the cap has just evicted, in each cache
CacheBytesBoundedWitness ==
  /\ lastSet.cache = "verified" /\ lastSet.stored /\ lastSet.evicted # <<>>
  /\ SumSizes(verifiedNzbCacheByUrl) = VERIFIED_NZB_CACHE_MAX_BYTES

(***************************************************************************)
(* C10: TTL.  No lookup of the response cache or the verified-NZB cache    *)
(* returns, and no mount request is answered from, an entry whose expiry   *)
(* instant has been reached; and while the cache's TTL is positive every   *)
(* entry returned carries an expiry instant.                               *)
(***************************************************************************)
TtlOf(cache) ==
  IF cache = "stream" THEN STREAM_CACHE_TTL_MS
  ELSE IF cache = "verified" THEN VERIFIED_NZB_CACHE_TTL_MS
  ELSE NZBDAV_CACHE_TTL_MS

NoExpiredHit ==
  lastLookup.hit =>
     /\ lastLookup.expiresAt = NoExpiry \/ lastLookup.at < lastLookup.expiresAt
     /\ TtlOf(lastLookup.cache) > 0 => lastLookup.expiresAt # NoExpiry
     /\ ~lastLookup.stale

\* a mount request found its key's entry past its TTL and was not answered from it
NoExpiredHitWitness ==
  lastLookup.cache = "mount" /\ lastLookup.stale /\ ~lastLookup.hit

(***************************************************************************)
(* C2: NNTP pool.  After any acquire/release/drop sequence followed by     *)
(* quiescence (no client held, no caller queued, no replacement, no        *)
(* keep-alive timer and no keep-alive probe outstanding) the open pool     *)
(* holds exactly N clients.                                                *)
(***************************************************************************)
InUse == {p \in Callers : callers[p].pc = "holding"}

Quiescent ==
  /\ \A p \in Callers : callers[p].pc \notin {"holding", "waiting"}
  /\ Replacing = 0
  /\ noopTimers = {}
  /\ probing = {}

PoolHoldsN == (~closing /\ Quiescent) => Len(idle) = NumClients

(***************************************************************************)
(* C3: NNTP pool.  While the pool is open, at all times                    *)
(* |idle| + |in-use| + |being-replaced| = N.                               *)
(***************************************************************************)
PoolConserved ==
  ~closing => Len(idle) + Cardinality(InUse) + Replacing = NumClients

(***************************************************************************)
(* C4: triage timebox.  With time budget T the runner returns within       *)
(* T + e, e being one download timeout: it is never still running, and     *)
(* never returns, later than T + downloadTimeoutMs after its start.        *)
(***************************************************************************)
TriageTimebox ==
  /\ phase = "running" => now - startTs <= timeBudgetMs + downloadTimeoutMs
  /\ phase = "returned" => returnedAt - startTs <= timeBudgetMs + downloadTimeoutMs

\* a run that timed out and returned after the budget, inside the allowance
TriageTimeboxWitness ==
  phase = "returned" /\ timedOut /\ returnedAt - startTs > timeBudgetMs

(***************************************************************************)
(* C5: once the budget has elapsed no new candidate is started: every      *)
(* download and every analysis of the run began before the budget ran out. *)
(***************************************************************************)
NoStartAfterBudget ==
  /\ \A d \in downloadStarts : d[2] - startTs < timeBudgetMs
  /\ \A a \in analysisStarts : a[2] - startTs < timeBudgetMs

Unstarted(c) == \A d \in downloadStarts : d[1] # c

\* the budget ran out with a candidate left that was never started, while
\* work begun before went on to completion
NoStartAfterBudgetWitness ==
  /\ phase = "returned" /\ timedOut
  /\ \E c \in 1..selectedCount : Unstarted(c)
  /\ \E c \in 1..selectedCount : decisionMap[c] = "verified"

(***************************************************************************)
(* C6: when the budget expires, the run returns a decision for every       *)
(* selected candidate, and every candidate that was never started ends     *)
(* `pending` or `skipped`.                                                 *)
(***************************************************************************)
BudgetExpiryPending ==
  (phase = "returned" /\ timedOut) =>
     \A c \in 1..selectedCount :
        /\ decisionMap[c] # "none"
        /\ Unstarted(c) => decisionMap[c] \in {"pending", "skipped"}

(***************************************************************************)
(* C7: a decision's status never regresses from a final one: while the     *)
(* cached entry of a key stays in the cache, a download URL whose cached   *)
(* decision is final keeps that status through every later write, and a    *)
(* request never re-runs or changes a final decision it restored.          *)
(***************************************************************************)
FinalDecisionsKept ==
  /\ \A h \in Handlers : \A u \in handlers[h].toRun :
        ~isTriageFinalStatus(handlers[h].triageDecisions[u])
  /\ (previousDecisions.present /\ cachedDecisions.present) =>
        \A u \in Urls :
           isTriageFinalStatus(previousDecisions.status[u]) =>
              cachedDecisions.status[u] = previousDecisions.status[u]

(***************************************************************************)
(* C11: a deterministic failure of the mount builder is pinned for the     *)
(* mount-handle TTL: every request for that key that arrives before the    *)
(* TTL has elapsed (and with no flush since the failure) is answered with  *)
(* the failure, and no builder is invoked for it.                          *)
(***************************************************************************)
FailurePinned ==
  [][\A r \in Reqs, k \in Keys :
        (getOrCreateNzbdavStream(r, k) /\ now < pinnedUntil[k]) =>
           (requests'[r].pc = "threw" /\ nextBuild' = nextBuild)]_vars

(***************************************************************************)
(* C12: a transient failure of the mount builder leaves no entry behind:   *)
(* the next request for that key invokes the builder again.                *)
(***************************************************************************)
TransientRetried ==
  [][\A r \in Reqs, k \in Keys :
        (getOrCreateNzbdavStream(r, k) /\ retryDue[k]) => requests'[r].via = "build"]_vars

(***************************************************************************)
(* C13: the pool is FIFO.  A waiting caller that is handed a client, by a  *)
(* release or by a replacement that connected, is the caller that has      *)
(* waited longest.                                                         *)
(***************************************************************************)
WaiterFifo ==
  [][\A p \in Callers :
        (callers[p].pc = "waiting" /\ callers'[p].pc = "holding") => p = Head(arrivals)]_vars

WaiterFifoWitness ==
  \E p \in Callers :
     callers[p].pc = "holding" /\ callers[p].via = "release" /\ callers[p].behind >= 1

(***************************************************************************)
(* C14: a client released with the drop mark is out of the pool for good,  *)
(* and the replacement scheduled for it stays in progress (closing the old *)
(* client, connecting, or waiting to retry) until a connect succeeds or    *)
(* the pool is closing.                                                    *)
(***************************************************************************)
DropReplaced ==
  [][/\ \A c \in dropped' : c \notin allClients' /\ ~InSeq(idle', c)
     /\ \A p \in Callers :
           releaseClient(p, TRUE) => Replacing' = Replacing + 1
     /\ Replacing' < Replacing => (closing \/ nextClientId' = nextClientId + 1)]_vars

\* a retry is armed, and every replacement scheduled so far was for a drop
DropReplacedWitness ==
  /\ ~closing
  /\ retryTimers > 0
  /\ Replacing + (nextClientId - 1 - NumClients) = Cardinality(dropped)

(***************************************************************************)
(* C15: at most one shared-pool build is in flight at a time: a pre-warm   *)
(* or triage call that needs a pool while a build is running awaits that   *)
(* build.                                                                  *)
(***************************************************************************)
BuildsInFlight == {b \in PoolBuildIds : poolBuilds[b].state \in {"running", "closingOld"}}

OnePoolBuild == Cardinality(BuildsInFlight) <= 1

(***************************************************************************)
(* C16: two candidates of the same serialized indexer are never being      *)
(* downloaded or analysed at the same time: the work for such an indexer   *)
(* runs one candidate after the other.                                     *)
(***************************************************************************)
Busy(w) == workers[w].pc \in {"downloading", "analysing"}

SerializedNeverConcurrent ==
  \A w1, w2 \in Workers :
     (w1 # w2 /\ Busy(w1) /\ Busy(w2)
        /\ indexerOf[workers[w1].cand] \in serializedIndexerSet)
     => indexerOf[workers[w2].cand] # indexerOf[workers[w1].cand]

(***************************************************************************)
(* C17: the candidates being downloaded or analysed at one time, the       *)
(* analyses given up on at their timeout included, are never more than the *)
(* download-concurrency option.                                            *)
(***************************************************************************)
InFlight == {c \in Candidates : c \in abandoned \/ \E w \in Workers : Busy(w) /\ workers[w].cand = c}

WorkersBounded == Cardinality(InFlight) <= NumWorkers

\* every worker is busy while a selected candidate still waits its turn
WorkersBoundedWitness ==
  /\ phase = "running"
  /\ Cardinality(InFlight) = NumWorkers
  /\ selectedCount > NumWorkers
  /\ cursor <= selectedCount

(***************************************************************************)
(* C18: circuit breaker.  After an aggregator call has failed with the     *)
(* breaker enabled, a call made within the backoff window of that failure  *)
(* and before any configuration reload is answered with empty results      *)
(* without the upstream being contacted.                                   *)
(***************************************************************************)
InBackoffWindow(t) == failedAt > 0 /\ t < failedAt + failedWindow

BreakerShortCircuits ==
  [][\A c \in ManagerCalls :
        (executeManagerPlanWithBackoff(c) /\ InBackoffWindow(now) /\ ~reloadedSince)
        => managerCalls'[c].outcome \in {"backoff", "empty"}]_vars

\* a call made after the instant of the failure, inside its window, was skipped
BreakerShortCircuitsWitness ==
  \E c \in ManagerCalls :
     /\ managerCalls[c].outcome = "backoff"
     /\ managerCalls[c].at > failedAt
     /\ InBackoffWindow(managerCalls[c].at)
     /\ ~reloadedSince

\* the same of every call within the window, reload or not
BreakerAlwaysShortCircuits ==
  [][\A c \in ManagerCalls :
        (executeManagerPlanWithBackoff(c) /\ InBackoffWindow(now))
        => managerCalls'[c].outcome \in {"backoff", "empty"}]_vars

(***************************************************************************)
(* C19: a search of either client that fails on a transient code is tried  *)
(* again, after a delay that grows exponentially, and no search makes more *)
(* than two retries: a search given up on a transient failure has made     *)
(* exactly three attempts, and none has made more.                         *)
(***************************************************************************)
TransientReplies ==
  {NetworkError(code) : code \in {"ECONNRESET", "ENOTFOUND", "ETIMEDOUT", "ECONNREFUSED", "EAI_AGAIN"}}
    \cup {HttpResponse(status, "items") : status \in {429, 503}}

TransientRetriedTwice ==
  \A t \in Tasks :
     /\ tasks[t].attempts <= 2 + 1
     /\ (tasks[t].pc = "rejected" /\ tasks[t].last \in TransientReplies)
           => tasks[t].attempts = 2 + 1
     /\ tasks[t].pc = "sleeping"
           => /\ tasks[t].delay >= ExponentialDelay(tasks[t].attempt)
              /\ 10 * tasks[t].delay < 13 * ExponentialDelay(tasks[t].attempt)

(***************************************************************************)
(* C20: a 401 or 403 from upstream is never retried: the request that got  *)
(* it is rejected at once.  searchNewznabIndexers records it as an error   *)
(* of that indexer alone, and every indexer whose search succeeded still   *)
(* contributes its results.                                                *)
(***************************************************************************)
Unauthorized(reply) == reply.status \in {401, 403}

AuthFailureIsolated ==
  [][/\ \A t \in Tasks :
           (tasks[t].pc = "requesting" /\ tasks'[t].pc # "requesting"
              /\ Unauthorized(tasks'[t].last))
           => (tasks'[t].pc = "rejected" /\ tasks'[t].attempts = tasks[t].attempts)
     /\ NewznabSettled =>
           \A i \in newznab.eligible :
              /\ Unauthorized(tasks[i].last) => (i \in newznab'.errors /\ i \notin newznab'.results)
              /\ tasks[i].pc = "fulfilled" => (i \in newznab'.results /\ i \notin newznab'.errors)]_vars

\* one indexer answered 401/403 to its only attempt, another contributed
AuthFailureIsolatedWitness ==
  /\ newznab.pc = "returned"
  /\ \E i, j \in newznab.eligible :
        /\ Unauthorized(tasks[i].last) /\ tasks[i].attempts = 1 /\ i \in newznab.errors
        /\ tasks[j].pc = "fulfilled" /\ j \in newznab.results

(***************************************************************************)
(* C21: with a shared secret configured, a request that carries the secret *)
(* nowhere (not in its path, not in its token header) never reaches the    *)
(* manifest, the stream handler or the playback handler.                   *)
(***************************************************************************)
CarriesSecret(req) ==
  req.header = sharedSecret \/ \E i \in 1..Len(req.path) : req.path[i] = sharedSecret

AuthGate ==
  (sharedSecret # "" /\ authStage = "done" /\ ~CarriesSecret(authReq))
  => invoked \notin {"manifestHandler", "streamHandler", "handleNzbdavStream"}

(***************************************************************************)
(* C22: a request that finds the key's entry with triageComplete true      *)
(* responds at once: it dispatches no search plan, hands nothing to the    *)
(* triage runner and does not write the entry again.                       *)
(***************************************************************************)
CompleteHitReturnsAtOnce ==
  (streamReq.hitComplete /\ streamReq.pc = "done")
  => (~streamReq.searched /\ streamReq.ran = {} /\ ~streamReq.rewrote)

(***************************************************************************)
(* C23: the entry is written with triageComplete true exactly when every   *)
(* candidate the request selected for evaluation has a decision with a     *)
(* final status: verified, blocked or unverified_7z.                       *)
(***************************************************************************)
TriageCompleteIffAllFinal ==
  streamReq.pc = "done"
  => (streamReq.wroteComplete
      <=> \A c \in streamReq.toRun :
            getDecisionStatus(streamReq.triageDecisions, c)
              \in {"verified", "blocked", "unverified_7z"})

\* an entry written complete after a triage run, and one written incomplete
TriageCompleteIffAllFinalWitness ==
  /\ streamReq.pc = "done"
  /\ streamReq.outcome
  /\ Cardinality(streamReq.ran) = 2
  /\ streamReq.wroteComplete

(***************************************************************************)
(* C24: no candidate handed to the triage runner already has a final       *)
(* decision, its own or that of a release of the same normalized title     *)
(* published within the sharing window.                                    *)
(***************************************************************************)
HasFinalDecision(decisions, candidate) ==
  \E i \in 1..Len(decisions) :
    /\ decisions[i].status \in {"verified", "blocked", "unverified_7z"}
    /\ \/ decisions[i].url = candidate
       \/ /\ streamPool.title[decisions[i].url] = streamPool.title[candidate]
          /\ (streamPool.day[decisions[i].url] - streamPool.day[candidate])
               \in (0 - TRIAGE_DECISION_SHARING_WINDOW_DAYS)..TRIAGE_DECISION_SHARING_WINDOW_DAYS

FailedStatuses == {"blocked", "fetch-error", "error"}

AllCheckedFailed ==
  /\ streamReq.hit
  /\ streamReq.cached # <<>>
  /\ \A i \in 1..Len(streamReq.cached) : streamReq.cached[i].status \in FailedStatuses

RetrySamplesFresh ==
  (streamReq.pc # "idle" /\ AllCheckedFailed)
  => /\ \A c \in streamReq.eligible : getDecisionStatus(streamReq.cached, c) = "none"
     /\ streamReq.toRun \subseteq streamReq.eligible
     /\ (\E c \in Range(streamReq.results) : getDecisionStatus(streamReq.cached, c) = "none")
          => streamReq.eligible # {}

RetrySamplesFreshWitness ==
  /\ streamReq.pc = "done"
  /\ AllCheckedFailed
  /\ streamReq.ran # {}
  /\ streamReq.outcome

(***************************************************************************)
(* C26: a configuration reload excludes request handling: when the admin   *)
(* config save flushes the caches, no playback request is in the middle of *)
(* its handler.                                                            *)
(***************************************************************************)
ReloadExcludesRequests ==
  [][flushEpoch' # flushEpoch => \A r \in Reqs : requests[r].pc = "idle"]_vars

(***************************************************************************)
(* C27: the status of a summarized decision is verified exactly when the   *)
(* analyzer's decision is accept and at least one of its findings is       *)
(* rar-stored, sevenzip-stored or segment-ok.                              *)
(***************************************************************************)
VerifiedIffAcceptAndPositive ==
  analysis.pc = "summarized"
  => (summarized = "verified"
      <=> /\ analysis.decision.decision = "accept"
          /\ \E finding \in analysis.decision.archiveFindings :
               finding \in {"rar-stored", "sevenzip-stored", "segment-ok"})

\* a verified decision, one of whose findings is a resolved STAT
VerifiedIffAcceptAndPositiveWitness ==
  /\ analysis.pc = "summarized"
  /\ summarized = "verified"
  /\ "segment-ok" \in analysis.decision.archiveFindings

(***************************************************************************)
(* C28: a failed NZB download gives its candidate the decision fetch-error *)
(* and does not end the run: the decisions triageAndRank returns hold one  *)
(* fetch-error per failed download, and, unless the run timed out, a       *)
(* decision of its own for every other selected candidate.                 *)
(***************************************************************************)
FetchErrorKeepsRunning ==
  phase = "returned"
  => /\ Cardinality({c \in 1..selectedCount : decisionMap[c] = "fetch-error"}) = fetchFailures
     /\ ~timedOut => \A c \in 1..selectedCount :
                       decisionMap[c] \notin {"none", "pending", "skipped"}

\* a returned run whose first download failed and whose later candidate
\* was analysed
FetchErrorKeepsRunningWitness ==
  /\ phase = "returned"
  /\ selectedCount >= 2
  /\ decisionMap[1] = "fetch-error"
  /\ \E c \in 2..selectedCount : decisionMap[c] \in {"verified", "blocked", "unverified"}

(***************************************************************************)
(* C29: the mount history wait has an overall deadline: it ends at once    *)
(* when a poll shows the job completed or failed, and otherwise it ends    *)
(* with an error at the deadline, give or take one poll interval, rather   *)
(* than going on.                                                          *)
(***************************************************************************)
WaitEndsAtDeadline ==
  /\ wait.pc \in {"polling", "retrying", "sleeping"}
       => now <= wait.deadline + NZBDAV_POLL_INTERVAL_MS
  /\ wait.pc = "done"
       => /\ wait.endedAt <= wait.deadline + NZBDAV_POLL_INTERVAL_MS
          /\ wait.outcome = "slot" => jobStatus = "completed"
          /\ wait.outcome = "failure" => jobStatus = "failed"
          /\ wait.outcome = "timeout" => wait.endedAt >= wait.deadline

(***************************************************************************)
(* C30: for a file of S bytes (S >= 1), a GET with Range: bytes=0-0 is     *)
(* answered 206 with Content-Range: bytes 0-0/S and one byte; a GET whose  *)
(* range starts at or after S is answered 416 with Content-Range:          *)
(* bytes */S.  On the proxied path this is the answer relayed from a       *)
(* WebDAV server that honours byte ranges.                                 *)
(***************************************************************************)
RangeCorrect ==
  (playback.pc = "responded" /\ playback.method = "GET" /\ playback.honoured
     /\ playback.range.unit = "bytes" /\ playback.range.rangeStart # <<>>
     /\ playback.totalSize >= 1)
  => /\ (playback.range.rangeStart = <<0>> /\ playback.range.rangeEnd = <<0>>)
          => /\ playback.response.status = 206
             /\ playback.response.contentRange = ContentRange(0, 0, playback.totalSize)
             /\ playback.response.contentLength = 1
             /\ playback.response.body = 1
     /\ (parseInt(playback.range.rangeStart) >= playback.totalSize
           /\ (playback.range.rangeEnd = <<>> \/ playback.via = "file"))
          => /\ playback.response.status = 416
             /\ playback.response.contentRange = UnsatisfiedRange(playback.totalSize)
             /\ playback.response.body = 0

\* a local file of S bytes asked for from position S on
RangeCorrectWitness ==
  /\ playback.pc = "responded"
  /\ playback.via = "file"
  /\ playback.method = "GET"
  /\ playback.totalSize = 2
  /\ playback.range = [unit |-> "bytes", rangeStart |-> <<2>>, rangeEnd |-> <<>>]
  /\ playback.response.status = 416

(***************************************************************************)
(* C31: the walk lists the directories breadth-first and no directory      *)
(* deeper than 6; the file returned is the largest video file, among those *)
(* of the listed directories, whose name matches the requested episode, or *)
(* the largest video file overall for a movie and when no name matches.    *)
(***************************************************************************)
ListedPaths == {walk.listed[i].path : i \in 1..Len(walk.listed)}

VideosListed ==
  {mountTree[n] : n \in {k \in 1..MaxFiles :
      mountTree[k].found /\ mountTree[k].dir \in ListedPaths
        /\ isVideoFileName(mountTree[k].name)}}

EpisodeVideosListed ==
  {f \in VideosListed : fileMatchesEpisode(f.name, walk.requestedEpisode)}

LargestOf(file, files) == file \in files /\ \A f \in files : f.size <= file.size

BreadthFirstToDepth ==
  /\ \A i \in 1..Len(walk.listed) :
       /\ walk.listed[i].depth = Len(walk.listed[i].path)
       /\ walk.listed[i].depth <= NZBDAV_MAX_DIRECTORY_DEPTH
       /\ \A j \in 1..Len(walk.listed) : i < j => walk.listed[i].depth <= walk.listed[j].depth
  /\ (walk.pc = "returned" /\ walk.failures = 0)
       => ListedPaths = {d \in Directories : Len(d) <= NZBDAV_MAX_DIRECTORY_DEPTH}

BestFileChosen ==
  /\ BreadthFirstToDepth
  /\ walk.pc = "returned"
       => IF EpisodeVideosListed # {} THEN LargestOf(walk.result, EpisodeVideosListed)
          ELSE IF VideosListed # {} THEN LargestOf(walk.result, VideosListed)
          ELSE walk.result = NoFile

\* a series request whose mount holds a smaller matching file at depth 6 and a larger
\* video of another name under the root
BestFileChosenWitness ==
  /\ walk.pc = "returned"
  /\ walk.failures = 0
  /\ walk.requestedEpisode # NoEpisode
  /\ walk.result.found
  /\ walk.result.dir = Chain(NZBDAV_MAX_DIRECTORY_DEPTH)
  /\ \E f \in VideosListed : f.size > walk.result.size

\* C31 as stated: the file chosen for a series request matches the requested episode
SeriesFileMatchesEpisode ==
  (walk.pc = "returned" /\ walk.requestedEpisode # NoEpisode /\ walk.result.found)
    => LargestOf(walk.result, EpisodeVideosListed)

(***************************************************************************)
(* C32: dedupe stability.  A result with no other result of its title      *)
(* within 14 days is kept; of two results of one title within 14 days of   *)
(* each other at most one is kept; and when they are the only two of their *)
(* title, the one kept is the paid one, else the newer one.                *)
(***************************************************************************)
SameRelease(i, j) ==
  /\ rankPool[i].title = rankPool[j].title
  /\ areReleasesWithinDays(rankPool[i].day, rankPool[j].day, DEDUPE_MAX_PUBLISH_DIFF_DAYS)

OnlyTwoOfTitle(i, j) ==
  \A k \in Range(ranker.prepared) : rankPool[k].title = rankPool[i].title => k \in {i, j}

DedupeStable ==
  (ranker.pc = "ranked" /\ ranker.options.dedupeEnabled)
  => \A i \in Range(ranker.prepared) :
       /\ (\A j \in Range(ranker.prepared) \ {i} : ~SameRelease(i, j))
            => i \in Range(ranker.final)
       /\ \A j \in Range(ranker.prepared) \ {i} :
            (SameRelease(i, j) /\ i \in Range(ranker.final))
              => /\ j \notin Range(ranker.final)
                 /\ OnlyTwoOfTitle(i, j) => ~Replaces(rankPool[j], rankPool[i])

(***************************************************************************)
(* C33: ranker idempotence.  The pipeline applied to its own output with   *)
(* the same options yields the same ordered list.                          *)
(***************************************************************************)
RankerIdempotent == ranker.pc = "reranked" => ranker.again = ranker.final

(***************************************************************************)
(* C34: a triage call that awaited a shared-pool build runs its checks,    *)
(* once that build has succeeded, with a pool, and with one built for its  *)
(* own configuration key.                                                  *)
(***************************************************************************)
JoinedBuildGivesPool ==
  \A c \in PoolCalls :
    (/\ poolCalls[c].pc = "checking"
     /\ poolCalls[c].build # 0
     /\ poolBuilds[poolCalls[c].build].state = "fulfilled")
    => /\ poolCalls[c].pool # NoPool
       /\ poolBuilds[poolCalls[c].build].key = poolCalls[c].key

(***************************************************************************)
(* C35: the pool a triage call is running its checks on is not closed, by  *)
(* another call's teardown or rebuild, by a pre-warm replacement or by the *)
(* stale eviction, before the call is done with it.                        *)
(***************************************************************************)
PoolOpenWhileChecked ==
  \A c \in PoolCalls :
    (poolCalls[c].pc = "checking" /\ poolCalls[c].pool # NoPool)
      => pools[poolCalls[c].pool] = "open"

(***************************************************************************)
(* C36: when a build that started before a cache flush completes, an entry *)
(* created for its key after the flush by another build is left as it is.  *)
(***************************************************************************)
FlushedBuildLeavesNewEntry ==
  [][\A b \in BuildIds :
       (/\ builds[b].state = "running"
        /\ builds'[b].state # "running"
        /\ builds[b].epoch < flushEpoch
        /\ nzbdavStreamCache[builds[b].key] # NoEntry
        /\ nzbdavStreamCache[builds[b].key].promise # b)
       => nzbdavStreamCache'[builds[b].key] = nzbdavStreamCache[builds[b].key]]_vars

(***************************************************************************)
(* C38: a client is used by one party at a time.  A client held by a       *)
(* caller is not in the idle list, is held by no other caller, and has no  *)
(* keep-alive probe running on it.                                         *)
(***************************************************************************)
ClientExclusive ==
  \A p \in Callers :
    callers[p].pc = "holding"
      => /\ ~InSeq(idle, callers[p].client)
         /\ callers[p].client \notin probing
         /\ \A q \in Callers \ {p} :
              callers[q].pc = "holding" => callers[q].client # callers[p].client

(***************************************************************************)
(* C39: once close() has been called the pool adds no client and hands     *)
(* none to a caller: the idle list and the set of clients do not grow and  *)
(* no caller becomes a holder.                                             *)
(***************************************************************************)
ClosedPoolAddsNothing ==
  [][closing
       => /\ Len(idle') <= Len(idle)
          /\ allClients' \subseteq allClients
          /\ \A p \in Callers :
               callers'[p].pc = "holding" => callers[p].pc = "holding"]_vars

ByteCountersExact ==
  /\ streamCacheBytes = SumSizes(streamResponseCache)
  /\ verifiedNzbCacheBytes = SumSizes(verifiedNzbCacheByUrl)

\* an existing key of the verified-NZB cache has been set again, in place,
\* next to another entry
ByteCountersExactWitness ==
  /\ lastSet.cache = "verified"
  /\ lastSet.stored
  /\ \E i \in 1..(Len(verifiedNzbCacheByUrl) - 1) :
       verifiedNzbCacheByUrl[i].key = lastSet.key
  /\ verifiedNzbCacheBytes > MaxEntrySize

====
